---- MODULE Spec2Model ----
(***************************************************************************)
(* A model of gridfinity_build123d:                                        *)
(*   - Compartments / CompartmentsEqual (compartments.py): the objects'    *)
(*     fields and the create() loop that turns an integer grid into calls  *)
(*     of Compartment.create with a size and a location;                   *)
(*   - Utils.locate_grid / place_by_grid / place_sketch_by_grid (utils.py);*)
(*   - Utils.attach and Utils.get_subclasses (utils.py);                   *)
(*   - Bin.__init__ (bin.py);                                              *)
(*   - Label, Scoop and ObjectFeature.apply (features.py);                 *)
(*   - the feature lists of BasePlateBlock, BasePlate, BasePlateEqual      *)
(*     (baseplate.py) and Compartment (compartments.py);                   *)
(*   - BottomSides (feature_locations.py).                                 *)
(* Each part has a specification of its own over the same variables.       *)
(* Lengths are Python floats in the source.  They are modelled as exact    *)
(* rationals <<numerator, denominator>> in lowest terms, so that the       *)
(* divisions by the number of rows and columns are not rounded away.       *)
(***************************************************************************)
EXTENDS Integers, Sequences, FiniteSets, TLC

VARIABLES
    grid,              \* Compartments.grid: list of rows of ints
    compartment_list,  \* Compartments.compartment_list: one Compartment or a list
    inner_wall,        \* Compartments.inner_wall
    outer_wall,        \* Compartments.outer_wall
    ctor,              \* which constructor built the object, with its arguments
    result,            \* the last Compartments.create call: arguments and outcome
    last               \* the last call of a Utils grid function: arguments and outcome

vars == <<grid, compartment_list, inner_wall, outer_wall, ctor, result, last>>

(***************************************************************************)
(* Bounds of the model.                                                    *)
(***************************************************************************)
MaxCells == 4      \* integer grids with at most this many cells are all tried
MaxVal == 2        \* ... holding the values 0..MaxVal
MaxDiv == 3        \* CompartmentsEqual(div_x, div_y) with 0..MaxDiv
MaxGridRows == 2   \* boolean grids: at most this many rows
MaxRowLen == 2     \* ... of at most this many cells each (rows may differ)

(***************************************************************************)
(* Float arithmetic, as exact rationals.                                   *)
(***************************************************************************)
Abs(x) == IF x < 0 THEN -x ELSE x

RECURSIVE GCD(_, _)
GCD(a, b) == IF b = 0 THEN a ELSE GCD(b, a % b)

Norm(n, d) ==
    LET g == GCD(Abs(n), Abs(d))
        s == IF d < 0 THEN -1 ELSE 1
    IN  <<(s * n) \div g, (s * d) \div g>>

R(n) == <<n, 1>>
Frac(n, d) == Norm(n, d)
RAdd(a, b) == Norm(a[1] * b[2] + b[1] * a[2], a[2] * b[2])
RSub(a, b) == Norm(a[1] * b[2] - b[1] * a[2], a[2] * b[2])
RMul(a, b) == Norm(a[1] * b[1], a[2] * b[2])
RDiv(a, b) == Norm(a[1] * b[2], a[2] * b[1])
RNeg(a) == <<-a[1], a[2]>>
RLess(a, b) == a[1] * b[2] < b[1] * a[2]
RMax(a, b) == IF RLess(a, b) THEN b ELSE a
RMin(a, b) == IF RLess(a, b) THEN a ELSE b

(***************************************************************************)
(* Python list indexing: 0-based, negative indices count from the end,     *)
(* anything else raises IndexError.                                        *)
(***************************************************************************)
PyIndexOK(list, i) == -Len(list) <= i /\ i < Len(list)
PyIndex(list, i) == IF i >= 0 THEN list[i + 1] ELSE list[Len(list) + i + 1]

(***************************************************************************)
(* Compartments._count_same_row: the number of cells equal to row[r_index] *)
(* from r_index to the right, up to the first cell that differs.           *)
(***************************************************************************)
RECURSIVE count_row_loop(_, _, _, _)
count_row_loop(row, number, i, count) ==
    IF i > Len(row) THEN count
    ELSE IF number = row[i] THEN count_row_loop(row, number, i + 1, count + 1)
    ELSE count

count_same_row_all(r_index, row) ==
    Cardinality({i \in 1..Len(row) : row[i] = row[r_index + 1]})

count_same_row_single(r_index, row) == 1

count_same_row(r_index, row) ==
    count_row_loop(row, row[r_index + 1], r_index + 1, 0)

(***************************************************************************)
(* Compartments._count_same_column: the same, downwards in one column.     *)
(***************************************************************************)
RECURSIVE count_column_loop(_, _, _, _, _)
count_column_loop(g, col, number, i, count) ==
    IF i > Len(g) THEN count
    ELSE IF g[i][col + 1] = number
         THEN count_column_loop(g, col, number, i + 1, count + 1)
    ELSE count

count_same_column_top(index, g) ==
    count_column_loop(g, index[2], g[index[1] + 1][index[2] + 1], 1, 0)

count_same_column(index, g) ==
    count_column_loop(g, index[2], g[index[1] + 1][index[2] + 1], index[1] + 1, 0)

(***************************************************************************)
(* Compartments._map_range.                                                *)
(***************************************************************************)
map_range(x, in_min, in_max, out_min, out_max) ==
    RAdd(RDiv(RMul(RSub(x, in_min), RSub(out_max, out_min)),
              RSub(in_max, in_min)),
         out_min)

(***************************************************************************)
(* Inputs.                                                                 *)
(***************************************************************************)
\* Rectangular integer grids of at most MaxCells cells.
SmallGrids ==
    UNION {[1..nr -> [1..nc -> 0..MaxVal]] :
           <<nr, nc>> \in {s \in (1..MaxCells) \X (1..MaxCells) : s[1] * s[2] <= MaxCells}}

\* The grids of the docstring, the unit tests and the examples.
DocstringGrid == <<<<1, 1, 2, 3, 3>>, <<1, 1, 2, 4, 4>>>>
OneRowGrid == <<<<1, 2, 2, 3, 3, 3>>>>
MultiRowGrid == <<<<1, 1, 2, 3>>, <<1, 1, 4, 3>>>>
ExampleGrid == <<<<1, 1, 2, 6, 3>>, <<1, 1, 5, 6, 5>>, <<1, 1, 4, 6, 7>>>>
DocGrids == {DocstringGrid, OneRowGrid, MultiRowGrid, ExampleGrid}

IntGrids == SmallGrids \cup DocGrids

GridValues(g) == {g[r][c] : <<r, c>> \in {p \in (1..Len(g)) \X (1..Len(g[1])) : TRUE}}
SetMax(S) == CHOOSE m \in S : \A x \in S : x <= m
DocMax == SetMax(UNION {GridValues(g) : g \in DocGrids})

\* Compartment objects are told apart by a number.  compartment_list is
\* [iterable, items]: one Compartment (items has that one object) or a list.
DefaultCompartment == [iterable |-> FALSE, items |-> <<0>>]
SingleCompartment == [iterable |-> FALSE, items |-> <<8>>]
IdentityList(n) == [iterable |-> TRUE, items |-> [i \in 1..n |-> i]]
ReversedList(n) == [iterable |-> TRUE, items |-> [i \in 1..n |-> n + 1 - i]]
CompartmentLists ==
    {SingleCompartment, ReversedList(MaxVal), IdentityList(DocMax)}
        \cup {IdentityList(n) : n \in 1..MaxVal}

\* An optional argument: not given (None), or given with a value.
Opt(S, dummy) ==
    {[given |-> FALSE, value |-> dummy]} \cup {[given |-> TRUE, value |-> v] : v \in S}

\* (inner_wall, outer_wall): the defaults 1.2 and 0.95, and the tests' 1 and 3.
Walls == {<<Frac(6, 5), Frac(19, 20)>>, <<R(1), R(3)>>}

\* How often create is called on one object.
MaxCalls == 2

\* (size_x, size_y, height) of a create call.
CreateArgs == {<<R(100), R(100), R(50)>>, <<Frac(167, 2), Frac(83, 2), R(16)>>}

(***************************************************************************)
(* Compartments.create.                                                    *)
(***************************************************************************)
distribute_area_one_wall(size, self) ==
    RAdd(RSub(size, self.outer_wall), self.inner_wall)

distribute_area(size, self) ==
    RAdd(RSub(size, RMul(self.outer_wall, R(2))), self.inner_wall)

size_unit_x(size_x, self) == RDiv(distribute_area(size_x, self), R(Len(self.grid[1])))
size_unit_y(size_y, self) == RDiv(distribute_area(size_y, self), R(Len(self.grid)))

middle(index, units) == RDiv(R(index + index + units), R(2))

loc_x(self, size_x, c_index, units_x) ==
    map_range(middle(c_index, units_x), R(0), R(Len(self.grid[1])), R(0),
              distribute_area(size_x, self))

loc_y_up(self, size_y, r_index, units_y) ==
    map_range(middle(r_index, units_y), R(0), R(Len(self.grid)), R(0),
              distribute_area(size_y, self))

loc_y(self, size_y, r_index, units_y) ==
    RMul(map_range(middle(r_index, units_y), R(0), R(Len(self.grid)), R(0),
                   distribute_area(size_y, self)),
         R(-1))

\* Which object's create is called for a grid value; the list index may be
\* out of range.
create_call_ok(self, item) ==
    self.compartment_list.iterable => PyIndexOK(self.compartment_list.items, item - 1)

create_call_first(self, item) == self.compartment_list.items[1]

create_call(self, item) ==
    IF self.compartment_list.iterable
    THEN PyIndex(self.compartment_list.items, item - 1)
    ELSE self.compartment_list.items[1]

compartment_size_x_unit(self, size_x, units_x) ==
    RMul(size_unit_x(size_x, self), R(units_x))

compartment_size_x(self, size_x, units_x) ==
    RSub(RMul(size_unit_x(size_x, self), R(units_x)), self.inner_wall)

compartment_size_y(self, size_y, units_y) ==
    RSub(RMul(size_unit_y(size_y, self), R(units_y)), self.inner_wall)

\* One Compartment.create call made by the loop body for the cell
\* (r_index, c_index), together with the Locations it is made in.
create_one(self, args, r_index, c_index) ==
    LET item == self.grid[r_index + 1][c_index + 1]
        units_x == count_same_row(c_index, self.grid[r_index + 1])
        units_y == count_same_column(<<r_index, c_index>>, self.grid)
    IN  [value |-> item,
         r_index |-> r_index,
         c_index |-> c_index,
         units_x |-> units_x,
         units_y |-> units_y,
         loc_x |-> loc_x(self, args[1], c_index, units_x),
         loc_y |-> loc_y(self, args[2], r_index, units_y),
         builder |-> create_call(self, item),
         size_x |-> compartment_size_x(self, args[1], units_x),
         size_y |-> compartment_size_y(self, args[2], units_y),
         height |-> args[3]]

is_new_every_cell(item, numbers_proccesed) == item # 0

\* Whether the loop body handles a cell: a non-zero value not seen before.
is_new(item, numbers_proccesed) ==
    item # 0 /\ \A i \in 1..Len(numbers_proccesed) : numbers_proccesed[i] # item

\* The two nested for loops, from cell (r_index, c_index) on.
RECURSIVE create_loop(_, _, _, _, _, _)
create_loop(self, args, r_index, c_index, numbers_proccesed, comps) ==
    IF r_index >= Len(self.grid)
    THEN [status |-> "ok", comps |-> comps]
    ELSE IF c_index >= Len(self.grid[r_index + 1])
    THEN create_loop(self, args, r_index + 1, 0, numbers_proccesed, comps)
    ELSE LET item == self.grid[r_index + 1][c_index + 1]
         IN  IF is_new(item, numbers_proccesed)
             THEN IF create_call_ok(self, item)
                  THEN create_loop(self, args, r_index, c_index + 1,
                                   Append(numbers_proccesed, item),
                                   Append(comps, create_one(self, args, r_index, c_index)))
                  ELSE [status |-> "IndexError", comps |-> comps]
             ELSE create_loop(self, args, r_index, c_index + 1, numbers_proccesed, comps)

create(self, args) ==
    IF Len(self.grid) = 0 THEN [status |-> "IndexError", comps |-> <<>>]
    ELSE IF Len(self.grid[1]) = 0 THEN [status |-> "ZeroDivisionError", comps |-> <<>>]
    ELSE create_loop(self, args, 0, 0, <<>>, <<>>)

(***************************************************************************)
(* What create writes.  The store of a call holds the four attributes of   *)
(* self and the one list the call changes in place, its local              *)
(* numbers_proccesed; self.grid and its rows are the caller's lists, read  *)
(* through enumerate and slices only.                                      *)
(***************************************************************************)
\* The store on entry of create, and after 'numbers_proccesed = []'.
call_store(self) ==
    [grid |-> self.grid, compartment_list |-> self.compartment_list,
     inner_wall |-> self.inner_wall, outer_wall |-> self.outer_wall,
     numbers_proccesed |-> <<>>]

\* A mistaken variant: the cell is struck out of the grid to mark its value
\* as processed.
mark_processed_in_grid(store, r_index, c_index, item) ==
    [store EXCEPT !.grid[r_index + 1][c_index + 1] = 0]

\* numbers_proccesed.append(item)
mark_processed(store, r_index, c_index, item) ==
    [store EXCEPT !.numbers_proccesed = Append(@, item)]

\* The two nested for loops over the store, from cell (r_index, c_index) on;
\* the loops end early when the list index of create_call is out of range.
RECURSIVE store_loop(_, _, _)
store_loop(store, r_index, c_index) ==
    IF r_index >= Len(store.grid)
    THEN store
    ELSE IF c_index >= Len(store.grid[r_index + 1])
    THEN store_loop(store, r_index + 1, 0)
    ELSE LET item == store.grid[r_index + 1][c_index + 1]
         IN  IF is_new(item, store.numbers_proccesed)
             THEN LET marked == mark_processed(store, r_index, c_index, item)
                  IN  IF create_call_ok(marked, item)
                      THEN store_loop(marked, r_index, c_index + 1)
                      ELSE marked
             ELSE store_loop(store, r_index, c_index + 1)

\* The attributes of self when create has returned or raised; the local list
\* is gone with the call.
self_after_create(self) ==
    LET store == IF Len(self.grid) = 0 \/ Len(self.grid[1]) = 0
                 THEN call_store(self)
                 ELSE store_loop(call_store(self), 0, 0)
    IN  [grid |-> store.grid, compartment_list |-> store.compartment_list,
         inner_wall |-> store.inner_wall, outer_wall |-> store.outer_wall]

(***************************************************************************)
(* CompartmentsEqual.__init__: the grid it hands to Compartments.__init__. *)
(***************************************************************************)
\* for _ in range(div_x): row.append(bin_nr); bin_nr += 1
RECURSIVE equal_row_loop(_, _, _)
equal_row_loop(n, row, bin_nr) ==
    IF n <= 0 THEN [row |-> row, bin_nr |-> bin_nr]
    ELSE equal_row_loop(n - 1, Append(row, bin_nr), bin_nr + 1)

\* for _ in range(div_y): ...; grid.append(row)
RECURSIVE equal_grid_loop(_, _, _, _)
equal_grid_loop(n, div_x, g, bin_nr) ==
    IF n <= 0 THEN g
    ELSE LET r == equal_row_loop(div_x, <<>>, bin_nr)
         IN  equal_grid_loop(n - 1, div_x, Append(g, r.row), r.bin_nr)

RECURSIVE equal_grid_restart(_, _)
equal_grid_restart(div_x, div_y) ==
    IF div_y <= 0 THEN <<>>
    ELSE Append(equal_grid_restart(div_x, div_y - 1), equal_row_loop(div_x, <<>>, 1).row)

equal_grid(div_x, div_y) == equal_grid_loop(div_y, div_x, <<>>, 1)

(***************************************************************************)
(* State and actions.                                                      *)
(***************************************************************************)
Self == [grid |-> grid, compartment_list |-> compartment_list,
         inner_wall |-> inner_wall, outer_wall |-> outer_wall]

NoResult == [called |-> FALSE, calls |-> 0, args |-> <<R(0), R(0), R(0)>>,
             status |-> "none", comps |-> <<>>]
NoCall == [op |-> "none"]

\* No Compartments object has been constructed yet.
NoObject == [name |-> "none", div_x |-> 0, div_y |-> 0]

Init ==
    /\ grid = <<>>
    /\ compartment_list = DefaultCompartment
    /\ inner_wall = R(0)
    /\ outer_wall = R(0)
    /\ ctor = NoObject
    /\ result = NoResult
    /\ last = NoCall

\* Compartments.__init__(grid, compartment_list, inner_wall, outer_wall)
CompartmentsInit ==
    /\ ctor = NoObject
    /\ \E g \in Opt(IntGrids, <<>>), cl \in Opt(CompartmentLists, DefaultCompartment),
          w \in Walls :
           /\ grid' = IF g.given THEN g.value ELSE <<<<1>>>>
           /\ compartment_list' = IF cl.given THEN cl.value ELSE DefaultCompartment
           /\ inner_wall' = w[1]
           /\ outer_wall' = w[2]
           /\ ctor' = [name |-> "Compartments", div_x |-> 0, div_y |-> 0]
           /\ result' = NoResult
           /\ UNCHANGED last

\* CompartmentsEqual.__init__(compartment_list, div_x, div_y, inner_wall, outer_wall)
CompartmentsEqualInit ==
    /\ ctor = NoObject
    /\ \E div_x \in 0..MaxDiv, div_y \in 0..MaxDiv,
          cl \in Opt(CompartmentLists, DefaultCompartment), w \in Walls :
           /\ grid' = equal_grid(div_x, div_y)
           /\ compartment_list' = IF cl.given THEN cl.value ELSE DefaultCompartment
           /\ inner_wall' = w[1]
           /\ outer_wall' = w[2]
           /\ ctor' = [name |-> "CompartmentsEqual", div_x |-> div_x, div_y |-> div_y]
           /\ result' = NoResult
           /\ UNCHANGED last

\* What one more call of create returns, after the calls counted in previous.
create_result(previous, self, args) ==
    [called |-> TRUE, calls |-> previous.calls + 1, args |-> args]
        @@ create(self, args)

\* Compartments.create(size_x, size_y, height), at most MaxCalls times on one
\* object.
Create ==
    /\ ctor # NoObject
    /\ result.calls < MaxCalls
    /\ \E args \in CreateArgs :
           /\ result' = create_result(result, Self, args)
           /\ grid' = self_after_create(Self).grid
           /\ compartment_list' = self_after_create(Self).compartment_list
           /\ inner_wall' = self_after_create(Self).inner_wall
           /\ outer_wall' = self_after_create(Self).outer_wall
           /\ UNCHANGED <<ctor, last>>

NextCompartments == CompartmentsInit \/ CompartmentsEqualInit \/ Create

SpecCompartments == Init /\ [][NextCompartments]_vars

(***************************************************************************)
(* Utils.locate_grid, place_by_grid and place_sketch_by_grid (utils.py).   *)
(***************************************************************************)
\* Boolean grids; the rows of one grid may differ in length.
BoolRows == UNION {[1..n -> BOOLEAN] : n \in 0..MaxRowLen}
SmallBoolGrids == UNION {[1..n -> BoolRows] : n \in 0..MaxGridRows}
HolesGrid == <<<<TRUE, FALSE, TRUE>>, <<TRUE, TRUE, TRUE>>, <<TRUE, TRUE, FALSE>>>>
RaggedGrid == <<<<TRUE, TRUE>>, <<TRUE, TRUE, TRUE>>>>
BoolGrids == SmallBoolGrids \cup {HolesGrid, RaggedGrid}

\* Objects to place, by the size of their bounding box: the tests' Box(10, 15,
\* 20) and Rectangle(10, 15), and the 42 by 42 cell of create_bin_platform.
PartObjs == {[size |-> <<R(10), R(15), R(20)>>], [size |-> <<R(42), R(42), Frac(14, 5)>>]}
SketchObjs == {[size |-> <<R(10), R(15), R(0)>>], [size |-> <<R(42), R(42), R(0)>>]}
Widths == Opt({R(0), R(12)}, R(0))
Lengths == Opt({R(0), R(17)}, R(0))

location_mirrored(width, length, row_nr, column_nr) ==
    <<RMul(width, R(column_nr + 1)), RMul(length, R(row_nr + 1))>>

\* Location((width * (column_nr + 1), length * -(row_nr + 1)))
location(width, length, row_nr, column_nr) ==
    <<RMul(width, R(column_nr + 1)), RMul(length, R(-(row_nr + 1)))>>

\* The two nested for loops of locate_grid, from cell (row_nr, column_nr) on.
RECURSIVE locate_loop(_, _, _, _, _, _)
locate_loop(g, width, length, row_nr, column_nr, locations) ==
    IF row_nr >= Len(g) THEN locations
    ELSE IF column_nr >= Len(g[row_nr + 1])
    THEN locate_loop(g, width, length, row_nr + 1, 0, locations)
    ELSE locate_loop(g, width, length, row_nr, column_nr + 1,
                     IF g[row_nr + 1][column_nr + 1]
                     THEN Append(locations, location(width, length, row_nr, column_nr))
                     ELSE locations)

locate_grid(g, width, length) == locate_loop(g, width, length, 0, 0, <<>>)

\* The size of the bounding box of copies of obj added at the locations.
RECURSIVE seq_max(_, _, _)
seq_max(locations, axis, i) ==
    IF i = Len(locations) THEN locations[i][axis]
    ELSE RMax(locations[i][axis], seq_max(locations, axis, i + 1))

RECURSIVE seq_min(_, _, _)
seq_min(locations, axis, i) ==
    IF i = Len(locations) THEN locations[i][axis]
    ELSE RMin(locations[i][axis], seq_min(locations, axis, i + 1))

placed_size(obj, locations) ==
    IF Len(locations) = 0 THEN <<R(0), R(0)>>
    ELSE <<RAdd(RSub(seq_max(locations, 1, 1), seq_min(locations, 1, 1)), obj.size[1]),
           RAdd(RSub(seq_max(locations, 2, 1), seq_min(locations, 2, 1)), obj.size[2])>>

\* "not width": None and 0 are both falsy.
falsy(arg) == ~arg.given \/ arg.value = R(0)

by_grid_spacing_falsy(obj, width, length) ==
    <<IF falsy(width) THEN obj.size[1] ELSE width.value,
      IF falsy(length) THEN obj.size[2] ELSE length.value>>

\* place_by_grid: the spacing used, after the defaults are filled in.
by_grid_spacing(obj, width, length) ==
    IF falsy(width) \/ falsy(length)
    THEN <<IF ~width.given THEN obj.size[1] ELSE width.value,
           IF ~length.given THEN obj.size[2] ELSE length.value>>
    ELSE <<width.value, length.value>>

\* place_sketch_by_grid: the same, with the bounding box always taken.
sketch_by_grid_spacing(obj, width, length) ==
    <<IF ~width.given THEN obj.size[1] ELSE width.value,
      IF ~length.given THEN obj.size[2] ELSE length.value>>

placed_outcome(op, obj, g, width, length, spacing, status) ==
    LET locations == locate_grid(g, spacing[1], spacing[2])
        ok == status = "ok"
    IN  [op |-> op, obj |-> obj, grid |-> g, width |-> width, length |-> length,
         used_width |-> spacing[1], used_length |-> spacing[2],
         locations |-> locations,
         status |-> status,
         placed |-> IF ok THEN locations ELSE <<>>,
         returned |-> ok,
         size |-> IF ok THEN placed_size(obj, locations) ELSE <<R(0), R(0)>>]

place_by_grid_unchecked(obj, g, width, length) ==
    placed_outcome("place_by_grid", obj, g, width, length,
                   by_grid_spacing(obj, width, length), "ok")

place_by_grid(obj, g, width, length) ==
    LET spacing == by_grid_spacing(obj, width, length)
        locations == locate_grid(g, spacing[1], spacing[2])
    IN  placed_outcome("place_by_grid", obj, g, width, length, spacing,
                       IF Len(locations) = 0 THEN "ValueError" ELSE "ok")

\* place_sketch_by_grid does not look at the locations itself.  With none, the
\* builder is left without a sketch and what BaseSketchObject does with that
\* (return it, raise ValueError) is the kernel's, so it is an input here.
KernelOutcomes == {"ok", "ValueError"}

place_sketch_by_grid(obj, g, width, length, kernel) ==
    LET spacing == sketch_by_grid_spacing(obj, width, length)
        locations == locate_grid(g, spacing[1], spacing[2])
    IN  placed_outcome("place_sketch_by_grid", obj, g, width, length, spacing,
                       IF Len(locations) = 0 THEN kernel ELSE "ok")

\* Utils.locate_grid(grid, width, length)
LocateGrid ==
    /\ last = NoCall
    /\ \E g \in BoolGrids, width \in {R(12), R(42)}, length \in {R(17), R(42)} :
           /\ last' = [op |-> "locate_grid", grid |-> g,
                       used_width |-> width, used_length |-> length,
                       locations |-> locate_grid(g, width, length)]
           /\ UNCHANGED <<grid, compartment_list, inner_wall, outer_wall, ctor, result>>

\* Utils.place_by_grid(obj, grid, width, length)
PlaceByGrid ==
    /\ last = NoCall
    /\ \E obj \in PartObjs, g \in BoolGrids, width \in Widths, length \in Lengths :
           /\ last' = place_by_grid(obj, g, width, length)
           /\ UNCHANGED <<grid, compartment_list, inner_wall, outer_wall, ctor, result>>

\* Utils.place_sketch_by_grid(obj, grid, width, length)
PlaceSketchByGrid ==
    /\ last = NoCall
    /\ \E obj \in SketchObjs, g \in BoolGrids, width \in Widths, length \in Lengths,
          kernel \in KernelOutcomes :
           /\ last' = place_sketch_by_grid(obj, g, width, length, kernel)
           /\ UNCHANGED <<grid, compartment_list, inner_wall, outer_wall, ctor, result>>

Zero3 == <<R(0), R(0), R(0)>>

(***************************************************************************)
(* Utils.create_bin_platform (utils.py): a 42 by 42 rectangle is placed on *)
(* every True cell at a spacing of 42, the sketches are united, the        *)
(* outline of the union is moved inwards by half the tolerance and the     *)
(* result extruded.  The platform is known by one rectangle per cell: a    *)
(* side that faces a neighbouring cell lies inside the union and stays, a  *)
(* side on the outline moves inwards.                                      *)
(***************************************************************************)
grid_size == 42                  \* gridfinity_standard.grid.size
tollerance == Frac(1, 2)         \* gridfinity_standard.grid.tollerance
platform_height == Frac(14, 5)   \* gridfinity_standard.bottom.platform_height

PlatformSketch == [size |-> <<R(grid_size), R(grid_size), R(0)>>]
Given(value) == [given |-> TRUE, value |-> value]

\* A mistaken variant: every cell gives way on all its sides.
outline_inset_per_cell(locations, center, dx, dy) == RDiv(tollerance, R(2))

\* offset(amount=-tol / 2) on the united sketch, seen from the cell at center
\* towards (dx, dy): nothing where the next cell is placed, tol / 2 otherwise.
outline_inset(locations, center, dx, dy) ==
    IF \E j \in 1..Len(locations) :
           locations[j] = <<RAdd(center[1], R(dx * grid_size)),
                            RAdd(center[2], R(dy * grid_size))>>
    THEN R(0)
    ELSE RDiv(tollerance, R(2))

platform_cells(locations) ==
    [k \in 1..Len(locations) |->
        LET center == locations[k]
            half == RDiv(R(grid_size), R(2))
        IN  [center |-> center,
             min |-> <<RAdd(RSub(center[1], half), outline_inset(locations, center, -1, 0)),
                       RAdd(RSub(center[2], half), outline_inset(locations, center, 0, -1))>>,
             max |-> <<RSub(RAdd(center[1], half), outline_inset(locations, center, 1, 0)),
                       RSub(RAdd(center[2], half), outline_inset(locations, center, 0, 1))>>]]

RECURSIVE cells_max(_, _, _)
cells_max(cells, axis, i) ==
    IF i = Len(cells) THEN cells[i].max[axis]
    ELSE RMax(cells[i].max[axis], cells_max(cells, axis, i + 1))

RECURSIVE cells_min(_, _, _)
cells_min(cells, axis, i) ==
    IF i = Len(cells) THEN cells[i].min[axis]
    ELSE RMin(cells[i].min[axis], cells_min(cells, axis, i + 1))

\* Utils.create_bin_platform(grid).  kernel is what the sketch builder does
\* when no rectangle was placed.
create_bin_platform(g, kernel) ==
    LET base_grid == place_sketch_by_grid(PlatformSketch, g, Given(R(grid_size)),
                                          Given(R(grid_size)), kernel)
        cells == platform_cells(base_grid.placed)
        call == [op |-> "create_bin_platform", grid |-> g,
                 used_width |-> base_grid.used_width,
                 used_length |-> base_grid.used_length,
                 locations |-> base_grid.locations]
    IN  IF base_grid.status # "ok" \/ cells = <<>>
        THEN call @@ [status |-> IF base_grid.status # "ok" THEN base_grid.status
                                 ELSE "RuntimeError",
                      cells |-> <<>>, size |-> Zero3]
        ELSE call @@ [status |-> "ok", cells |-> cells,
              size |-> <<RSub(cells_max(cells, 1, 1), cells_min(cells, 1, 1)),
                         RSub(cells_max(cells, 2, 1), cells_min(cells, 2, 1)),
                         platform_height>>]

CreateBinPlatform ==
    /\ last = NoCall
    /\ \E g \in BoolGrids, kernel \in KernelOutcomes :
           /\ last' = create_bin_platform(g, kernel)
           /\ UNCHANGED <<grid, compartment_list, inner_wall, outer_wall, ctor, result>>

NextGrid == LocateGrid \/ PlaceByGrid \/ PlaceSketchByGrid \/ CreateBinPlatform

SpecGrid == Init /\ [][NextGrid]_vars

(***************************************************************************)
(* What the claims speak of, stated from the grid alone.                   *)
(***************************************************************************)
NRows(g) == Len(g)
NCols(g) == Len(g[1])
Positions(g) == {p \in (0..(NRows(g) - 1)) \X (0..(NCols(g) - 1)) : TRUE}
Cell(g, p) == g[p[1] + 1][p[2] + 1]
RowMajor(g, p) == p[1] * NCols(g) + p[2]
NonZeroValues(g) == {Cell(g, p) : p \in Positions(g)} \ {0}

\* The first cell, in row-major order, that holds v.
FirstPos(g, v) ==
    CHOOSE p \in Positions(g) :
        /\ Cell(g, p) = v
        /\ \A q \in Positions(g) : Cell(g, q) = v => RowMajor(g, p) <= RowMajor(g, q)

\* The length of the run of equal values from p to the right / downwards.
RunRight(g, p) ==
    CHOOSE n \in 1..(NCols(g) - p[2]) :
        /\ \A k \in 0..(n - 1) : Cell(g, <<p[1], p[2] + k>>) = Cell(g, p)
        /\ p[2] + n < NCols(g) => Cell(g, <<p[1], p[2] + n>>) # Cell(g, p)

RunDown(g, p) ==
    CHOOSE n \in 1..(NRows(g) - p[1]) :
        /\ \A k \in 0..(n - 1) : Cell(g, <<p[1] + k, p[2]>>) = Cell(g, p)
        /\ p[1] + n < NRows(g) => Cell(g, <<p[1] + n, p[2]>>) # Cell(g, p)

Created == result.comps
Returned == result.called /\ result.status = "ok"

\* C1: create makes exactly one compartment for each distinct non-zero value
\* of the grid and none for 0, in the row-major order of the values' first
\* occurrences; later occurrences of a value make nothing.
C1_OnePerValue ==
    Returned =>
        /\ {Created[i].value : i \in 1..Len(Created)} = NonZeroValues(grid)
        /\ Len(Created) = Cardinality(NonZeroValues(grid))
        /\ \A i \in 1..Len(Created) :
               <<Created[i].r_index, Created[i].c_index>> = FirstPos(grid, Created[i].value)
        /\ \A i, j \in 1..Len(Created) :
               i < j => RowMajor(grid, FirstPos(grid, Created[i].value))
                            < RowMajor(grid, FirstPos(grid, Created[j].value))

\* A grid with a zero and a value that occurs again after another value.
C1_Witness ==
    /\ Returned
    /\ Len(Created) = 2
    /\ \E p \in Positions(grid) : Cell(grid, p) = 0
    /\ \E p, q \in Positions(grid) :
           /\ RowMajor(grid, p) < RowMajor(grid, q)
           /\ Cell(grid, p) # 0
           /\ Cell(grid, q) = Cell(grid, p)

\* C2: for the docstring's grid [[1,1,2,3,3],[1,1,2,4,4]] create makes exactly
\* 4 compartments: value 1 is 2 by 2 grid units, value 2 is 1 by 2, values 3
\* and 4 are 2 by 1 each (x by y).
C2_DocstringExample ==
    (Returned /\ grid = DocstringGrid) =>
        /\ Len(Created) = 4
        /\ {Created[i].value : i \in 1..4} = {1, 2, 3, 4}
        /\ \A i \in 1..4 :
               <<Created[i].units_x, Created[i].units_y>> =
                   CASE Created[i].value = 1 -> <<2, 2>>
                     [] Created[i].value = 2 -> <<1, 2>>
                     [] Created[i].value = 3 -> <<2, 1>>
                     [] Created[i].value = 4 -> <<2, 1>>

C2_Witness == Returned /\ grid = DocstringGrid /\ Len(Created) > 0

\* C3: a compartment whose value first occurs at (r, c) has units_x = the run
\* of equal values from c to the right in row r, units_y = the run from r
\* downwards in column c, size_x = (size_x - 2*outer_wall + inner_wall) / ncols
\* * units_x - inner_wall, size_y likewise with nrows and units_y, and the
\* height passed to create.
C3_RunsAndSizes ==
    result.called =>
        \A i \in 1..Len(Created) :
            LET p == FirstPos(grid, Created[i].value)
                ux == RunRight(grid, p)
                uy == RunDown(grid, p)
                area_x == RAdd(RSub(result.args[1], RMul(R(2), outer_wall)), inner_wall)
                area_y == RAdd(RSub(result.args[2], RMul(R(2), outer_wall)), inner_wall)
            IN  /\ Created[i].units_x = ux
                /\ Created[i].units_y = uy
                /\ Created[i].size_x =
                       RSub(RMul(RDiv(area_x, R(NCols(grid))), R(ux)), inner_wall)
                /\ Created[i].size_y =
                       RSub(RMul(RDiv(area_y, R(NRows(grid))), R(uy)), inner_wall)
                /\ Created[i].height = result.args[3]

\* A compartment whose value occurs again in its row after the run has ended.
C3_Witness ==
    /\ Returned
    /\ \E i \in 1..Len(Created) :
           /\ Created[i].units_x >= 2
           /\ \E c \in 0..(NCols(grid) - 1) :
                  /\ c >= Created[i].c_index + Created[i].units_x
                  /\ Cell(grid, <<Created[i].r_index, c>>) = Created[i].value

\* C4: a compartment is centred on the midpoint of its unit rectangle: with the
\* first occurrence at (r, c), x = (c + units_x/2) * (size_x - 2*outer_wall +
\* inner_wall) / ncols and y = -(r + units_y/2) * (size_y - 2*outer_wall +
\* inner_wall) / nrows; columns grow towards +x, rows towards -y.
C4_Location ==
    result.called =>
        \A i \in 1..Len(Created) :
            LET p == FirstPos(grid, Created[i].value)
                area_x == RAdd(RSub(result.args[1], RMul(R(2), outer_wall)), inner_wall)
                area_y == RAdd(RSub(result.args[2], RMul(R(2), outer_wall)), inner_wall)
                mid_x == RAdd(R(p[2]), RDiv(R(Created[i].units_x), R(2)))
                mid_y == RAdd(R(p[1]), RDiv(R(Created[i].units_y), R(2)))
            IN  /\ Created[i].loc_x = RDiv(RMul(mid_x, area_x), R(NCols(grid)))
                /\ Created[i].loc_y = RNeg(RDiv(RMul(mid_y, area_y), R(NRows(grid))))
                /\ RLess(R(0), Created[i].loc_x)
                /\ RLess(Created[i].loc_y, R(0))

\* A compartment that starts neither in the first row nor in the first column.
C4_Witness ==
    /\ Returned
    /\ \E i \in 1..Len(Created) :
           Created[i].r_index > 0 /\ Created[i].c_index > 0 /\ Created[i].units_x > 1

\* C5: with a list, the compartment of grid value v is built by
\* compartment_list[v - 1]; with a single Compartment, that object builds
\* every compartment.
C5_Builder ==
    result.called =>
        \A i \in 1..Len(Created) :
            Created[i].builder =
                IF compartment_list.iterable
                THEN compartment_list.items[Created[i].value]
                ELSE compartment_list.items[1]

\* A list whose second entry builds the compartment of value 2.
C5_Witness ==
    /\ Returned
    /\ compartment_list = ReversedList(MaxVal)
    /\ \E i \in 1..Len(Created) : Created[i].value = 2

\* C6: CompartmentsEqual(div_x, div_y) builds a grid of div_y rows and div_x
\* columns holding 1..div_x*div_y in row-major order; create then makes
\* exactly div_x*div_y compartments, each one grid unit wide and high and all
\* of one size.
C6_Equal ==
    ctor.name = "CompartmentsEqual" =>
        /\ Len(grid) = ctor.div_y
        /\ \A r \in 1..Len(grid) :
               /\ Len(grid[r]) = ctor.div_x
               /\ \A c \in 1..Len(grid[r]) : grid[r][c] = (r - 1) * ctor.div_x + c
        /\ (result.called /\ ctor.div_x >= 1 /\ ctor.div_y >= 1
                /\ ~compartment_list.iterable) => result.status = "ok"
        /\ Returned =>
               /\ Len(Created) = ctor.div_x * ctor.div_y
               /\ \A i \in 1..Len(Created) :
                      /\ Created[i].units_x = 1
                      /\ Created[i].units_y = 1
                      /\ Created[i].size_x = Created[1].size_x
                      /\ Created[i].size_y = Created[1].size_y

C6_Witness ==
    /\ ctor.name = "CompartmentsEqual"
    /\ ctor.div_x = 2
    /\ ctor.div_y = 2
    /\ Returned
    /\ Len(Created) = 4

(***************************************************************************)
(* The boolean grid of the last Utils call, stated from the grid alone.    *)
(***************************************************************************)
TrueCells(g) ==
    {p \in UNION {{<<r, c>> : c \in 0..(Len(g[r + 1]) - 1)} : r \in 0..(Len(g) - 1)} :
        g[p[1] + 1][p[2] + 1]}
Before(p, q) == p[1] < q[1] \/ (p[1] = q[1] /\ p[2] < q[2])
Rank(g, p) == 1 + Cardinality({q \in TrueCells(g) : Before(q, p)})
Placing == last.op \in {"place_by_grid", "place_sketch_by_grid"}

\* C7: place_by_grid raises ValueError when the grid holds no True cell; then
\* no copy of the object is placed and no part is returned.
C7_PlaceByGridNothing ==
    (last.op = "place_by_grid" /\ TrueCells(last.grid) = {}) =>
        /\ last.status = "ValueError"
        /\ last.placed = <<>>
        /\ ~last.returned

C7_Witness ==
    /\ last.op = "place_by_grid"
    /\ last.grid = <<<<FALSE>>>>
    /\ last.status = "ValueError"

\* C9: locate_grid returns one location per True cell and none per False
\* cell, in row-major order, the cell (row, col) at x = width*(col+1),
\* y = -length*(row+1), rows of any lengths; so what place_by_grid returns
\* spans width*(maxcol - mincol) + the object's size in x and
\* length*(maxrow - minrow) + the object's size in y over the True cells.
C9_LocateGrid ==
    last.op # "none" =>
        /\ Len(last.locations) = Cardinality(TrueCells(last.grid))
        /\ \A p \in TrueCells(last.grid) :
               last.locations[Rank(last.grid, p)] =
                   <<RMul(last.used_width, R(p[2] + 1)),
                     RNeg(RMul(last.used_length, R(p[1] + 1)))>>
        /\ (last.op = "place_by_grid" /\ last.returned) =>
               LET cols == {p[2] : p \in TrueCells(last.grid)}
                   rows == {p[1] : p \in TrueCells(last.grid)}
                   span(S) == SetMax(S) - (CHOOSE m \in S : \A x \in S : m <= x)
               IN  last.size =
                       <<RAdd(RMul(last.used_width, R(span(cols))), last.obj.size[1]),
                         RAdd(RMul(last.used_length, R(span(rows))), last.obj.size[2])>>

\* The tests' grid with rows of 2 and 3 cells, spaced 12 by 17: 34 by 32.
C9_Witness ==
    /\ last.op = "place_by_grid"
    /\ last.grid = RaggedGrid
    /\ last.returned
    /\ last.obj.size = <<R(10), R(15), R(20)>>
    /\ last.size = <<R(34), R(32)>>

\* C10: in place_by_grid and place_sketch_by_grid a width that is None becomes
\* the object's bounding-box size in x, a length that is None its size in y,
\* and a value that was passed is used as it is, whatever the other one is.
C10_SpacingDefaults ==
    Placing =>
        /\ last.used_width = IF last.width.given THEN last.width.value ELSE last.obj.size[1]
        /\ last.used_length = IF last.length.given THEN last.length.value ELSE last.obj.size[2]

\* Only the length is left out, and a width of 0 is passed.
C10_Witness ==
    /\ last.op = "place_by_grid"
    /\ last.width.given
    /\ last.width.value = R(0)
    /\ ~last.length.given
    /\ last.used_width = R(0)
    /\ last.used_length = last.obj.size[2]

(***************************************************************************)
(* Utils.attach (utils.py): add a part to a builder context, translated so *)
(* that it touches one side of what the context already holds.  A shape is *)
(* known by its bounding box [min, max], each an <<x, y, z>> of rationals; *)
(* the context's part after add() is the union of the two shapes.          *)
(***************************************************************************)
MaxOffset == 3     \* offset_value: the integers -MaxOffset..MaxOffset (and two more)

VAdd(v, w) == [i \in 1..3 |-> RAdd(v[i], w[i])]
BoxAt(size, center) ==
    [min |-> [i \in 1..3 |-> RSub(center[i], RDiv(size[i], R(2)))],
     max |-> [i \in 1..3 |-> RAdd(center[i], RDiv(size[i], R(2)))]]
moved(bbox, loc) == [min |-> VAdd(bbox.min, loc), max |-> VAdd(bbox.max, loc)]
union_bbox(a, b) ==
    [min |-> [i \in 1..3 |-> RMin(a.min[i], b.min[i])],
     max |-> [i \in 1..3 |-> RMax(a.max[i], b.max[i])]]

AttachValues == {"TOP", "BOTTOM", "LEFT", "RIGHT", "BACK", "FRONT"}

\* Builder contexts: the tests' Box(10, 10, 10), a box away from the origin,
\* and a builder that holds nothing yet.
NoBBox == [min |-> Zero3, max |-> Zero3]
AttachContexts ==
    {[has_part |-> TRUE, bbox |-> BoxAt(<<R(10), R(10), R(10)>>, Zero3)],
     [has_part |-> TRUE, bbox |-> BoxAt(<<R(4), R(6), R(8)>>, <<R(1), R(-2), R(3)>>)],
     [has_part |-> FALSE, bbox |-> NoBBox]}
AttachParts ==
    {BoxAt(<<R(10), R(10), R(10)>>, Zero3),
     BoxAt(<<R(2), R(4), R(6)>>, <<R(7), R(-1), Frac(1, 2)>>)}
AttachOffsets == {R(o) : o \in (-MaxOffset)..MaxOffset} \cup {R(5), Frac(1, 2)}

\* A mistaken variant: the part's own position is not taken out.
attach_location_context_only(context_part, part, attach, offset_value) ==
    CASE attach = "TOP" -> <<R(0), R(0), RAdd(context_part.max[3], offset_value)>>
      [] attach = "BOTTOM" -> <<R(0), R(0), RSub(context_part.min[3], offset_value)>>
      [] attach = "LEFT" -> <<RSub(context_part.min[1], offset_value), R(0), R(0)>>
      [] attach = "RIGHT" -> <<RAdd(context_part.max[1], offset_value), R(0), R(0)>>
      [] attach = "FRONT" -> <<R(0), RSub(context_part.min[2], offset_value), R(0)>>
      [] attach = "BACK" -> <<R(0), RAdd(context_part.max[2], offset_value), R(0)>>
      [] OTHER -> Zero3

\* The match statement: the translation of the part.
attach_location(context_part, part, attach, offset_value) ==
    CASE attach = "TOP" ->
             <<R(0), R(0),
               RAdd(RAdd(context_part.max[3], RMul(R(-1), part.min[3])), offset_value)>>
      [] attach = "BOTTOM" ->
             <<R(0), R(0),
               RSub(RAdd(context_part.min[3], RMul(R(-1), part.max[3])), offset_value)>>
      [] attach = "LEFT" ->
             <<RSub(RAdd(context_part.min[1], RMul(R(-1), part.max[1])), offset_value),
               R(0), R(0)>>
      [] attach = "RIGHT" ->
             <<RAdd(RAdd(context_part.max[1], RMul(R(-1), part.min[1])), offset_value),
               R(0), R(0)>>
      [] attach = "FRONT" ->
             <<R(0),
               RSub(RAdd(context_part.min[2], RMul(R(-1), part.max[2])), offset_value),
               R(0)>>
      [] attach = "BACK" ->
             <<R(0),
               RAdd(RAdd(context_part.max[2], RMul(R(-1), part.min[2])), offset_value),
               R(0)>>
      [] OTHER -> Zero3

\* Utils.attach as a whole: what was added, and what the context holds after.
attach(context, part, attach_value, offset_value) ==
    IF ~context.has_part
    THEN [op |-> "attach", context |-> context, part |-> part, attach |-> attach_value,
          offset_value |-> offset_value, status |-> "TypeError",
          location |-> Zero3, added |-> NoBBox, after |-> context]
    ELSE LET loc == attach_location(context.bbox, part, attach_value, offset_value)
             added == moved(part, loc)
         IN  [op |-> "attach", context |-> context, part |-> part, attach |-> attach_value,
              offset_value |-> offset_value, status |-> "ok",
              location |-> loc, added |-> added,
              after |-> [has_part |-> TRUE, bbox |-> union_bbox(context.bbox, added)]]

Attach ==
    /\ last = NoCall
    /\ \E context \in AttachContexts, part \in AttachParts, attach_value \in AttachValues,
          offset_value \in AttachOffsets :
           /\ last' = attach(context, part, attach_value, offset_value)
           /\ UNCHANGED <<grid, compartment_list, inner_wall, outer_wall, ctor, result>>

NextAttach == Attach

SpecAttach == Init /\ [][NextAttach]_vars

\* The axis a direction works along and whether it points to the positive side.
AttachAxis(a) == IF a \in {"LEFT", "RIGHT"} THEN 1 ELSE IF a \in {"FRONT", "BACK"} THEN 2 ELSE 3
AttachPositive(a) == a \in {"TOP", "RIGHT", "BACK"}
Extent(bbox, axis) == RSub(bbox.max[axis], bbox.min[axis])
Attached == last.op = "attach" /\ last.status = "ok"

\* The part is moved along the one axis of the direction and lands with its
\* near side offset_value away from the context's side.
AttachTouches ==
    LET axis == AttachAxis(last.attach)
    IN  /\ \A i \in (1..3) \ {axis} : last.location[i] = R(0)
        /\ last.added = moved(last.part, last.location)
        /\ IF AttachPositive(last.attach)
           THEN last.added.min[axis] = RAdd(last.context.bbox.max[axis], last.offset_value)
           ELSE last.added.max[axis] = RSub(last.context.bbox.min[axis], last.offset_value)

\* The extent of the context after the call is the sum of the two extents and
\* the offset.
AttachExtentIsSum ==
    LET axis == AttachAxis(last.attach)
    IN  Extent(last.after.bbox, axis) =
            RAdd(RAdd(Extent(last.context.bbox, axis), Extent(last.part, axis)),
                 last.offset_value)

\* The offset does not pull the part further back than either shape is long.
AttachNoPullThrough ==
    LET axis == AttachAxis(last.attach)
    IN  /\ ~RLess(last.offset_value, RNeg(Extent(last.context.bbox, axis)))
        /\ ~RLess(last.offset_value, RNeg(Extent(last.part, axis)))

\* C11 (amended): when the context holds a part, Utils.attach adds the part
\* translated along exactly one axis (z for TOP/BOTTOM, x for LEFT/RIGHT, y for
\* FRONT/BACK, 0 on the others) so that for TOP/RIGHT/BACK part.min =
\* context.max + offset_value and for BOTTOM/LEFT/FRONT part.max = context.min -
\* offset_value.  The combined extent on that axis is context extent + part
\* extent + offset_value when offset_value >= -min(context extent, part extent).
C11_Attach ==
    Attached => /\ AttachTouches
                /\ AttachNoPullThrough => AttachExtentIsSum

\* The tests' case: a 10 cube on top of a 10 cube with offset 5 is 25 high.
C11_Witness ==
    /\ Attached
    /\ last.attach = "TOP"
    /\ last.offset_value = R(5)
    /\ last.location = <<R(0), R(0), R(15)>>
    /\ Extent(last.after.bbox, 3) = R(25)
    /\ last.after.bbox.max[3] = R(20)

\* C11 as stated: the combined extent is the sum for every offset_value.
C11_Original ==
    Attached => /\ AttachTouches
                /\ AttachExtentIsSum

(***************************************************************************)
(* Utils.get_subclasses (utils.py).  A class hierarchy is a function from  *)
(* the classes 1..n, numbered in the order of their definition, to the set *)
(* of their direct bases among the classes defined before them (a class    *)
(* may have several bases, or none in the hierarchy).                      *)
(* type.__subclasses__() lists the direct subclasses in definition order.  *)
(***************************************************************************)
MaxClasses == 5    \* hierarchies of 1..MaxClasses classes

\* The hierarchies of n classes: a class has its bases among the classes
\* defined before it.
RECURSIVE HierarchiesOf(_)
HierarchiesOf(n) ==
    IF n = 0 THEN {<<>>}
    ELSE {Append(h, b) : h \in HierarchiesOf(n - 1), b \in SUBSET (1..(n - 1))}

Hierarchies == UNION {HierarchiesOf(n) : n \in 1..MaxClasses}

Classes(bases) == DOMAIN bases

\* The classes get_subclasses is asked about: the first two of a hierarchy.
\* What lies below a class defined later is a hierarchy of fewer classes.
AskedClasses(bases) == {c \in Classes(bases) : c <= 2}

RECURSIVE subclasses_from(_, _, _)
subclasses_from(bases, class_name, c) ==
    IF c \notin Classes(bases) THEN <<>>
    ELSE (IF class_name \in bases[c] THEN <<c>> ELSE <<>>)
             \o subclasses_from(bases, class_name, c + 1)

\* class_name.__subclasses__()
subclasses(bases, class_name) == subclasses_from(bases, class_name, 1)

\* A mistaken variant: a subclass is listed after its own subclasses.
RECURSIVE get_subclasses_post(_, _)
RECURSIVE get_subclasses_post_loop(_, _, _)
get_subclasses_post_loop(bases, todo, classes) ==
    IF todo = <<>> THEN classes
    ELSE get_subclasses_post_loop(bases, Tail(todo),
             (classes \o get_subclasses_post(bases, Head(todo))) \o <<Head(todo)>>)

get_subclasses_post(bases, class_name) ==
    get_subclasses_post_loop(bases, subclasses(bases, class_name), <<>>)

RECURSIVE get_subclasses(_, _)
RECURSIVE get_subclasses_loop(_, _, _)
\* for subclass in ...: classes.append(subclass); classes += get_subclasses(subclass)
get_subclasses_loop(bases, todo, classes) ==
    IF todo = <<>> THEN classes
    ELSE get_subclasses_loop(bases, Tail(todo),
             Append(classes, Head(todo)) \o get_subclasses(bases, Head(todo)))

get_subclasses(bases, class_name) ==
    get_subclasses_loop(bases, subclasses(bases, class_name), <<>>)

GetSubclasses ==
    /\ last = NoCall
    /\ \E bases \in Hierarchies :
           \E class_name \in AskedClasses(bases) :
               /\ last' = [op |-> "get_subclasses", bases |-> bases,
                           class_name |-> class_name,
                           classes |-> get_subclasses(bases, class_name)]
               /\ UNCHANGED <<grid, compartment_list, inner_wall, outer_wall, ctor, result>>

NextSubclasses == GetSubclasses

SpecSubclasses == Init /\ [][NextSubclasses]_vars

\* c derives from a, directly or through other classes.
RECURSIVE DerivesFrom(_, _, _)
DerivesFrom(bases, c, a) ==
    \/ a \in bases[c]
    \/ \E b \in bases[c] : DerivesFrom(bases, b, a)

Descendants(bases, a) == {c \in Classes(bases) : DerivesFrom(bases, c, a)}
Listed(classes) == {classes[i] : i \in 1..Len(classes)}

\* The inheritance paths that lead from a down to a subclass, each given by
\* the set of the classes on it below a: classes are numbered in the order of
\* their definition and a class is defined after its bases, so a path is the
\* ascending order of its set.
InheritancePaths(bases, a) ==
    {S \in SUBSET Classes(bases) :
        /\ S # {}
        /\ \A c \in S :
               LET above == {b \in S : b < c}
               IN  IF above = {} THEN a \in bases[c] ELSE SetMax(above) \in bases[c]}

\* Depth-first pre-order of two paths: a path comes before the paths that
\* continue it, and where two paths part the one through the class defined
\* earlier comes first.
PathBefore(S, T) ==
    /\ S # T
    /\ LET m == CHOOSE x \in (S \ T) \cup (T \ S) :
                    \A y \in (S \ T) \cup (T \ S) : x <= y
       IN  \/ m \in S /\ \E x \in T : x > m
           \/ m \in T /\ \A x \in S : x < m

PathRank(paths, S) == 1 + Cardinality({T \in paths : PathBefore(T, S)})

\* The list holds one entry per inheritance path, in depth-first pre-order.
PreOrder(bases, class_name, classes) ==
    LET paths == InheritancePaths(bases, class_name)
    IN  /\ Len(classes) = Cardinality(paths)
        /\ \A S \in paths : classes[PathRank(paths, S)] = SetMax(S)

\* Each direct subclass is followed at once by a block that holds all of its
\* own descendants and nothing else, and after the block comes the next direct
\* subclass or the end of the list.
Blocks(bases, class_name, classes) ==
    LET direct == subclasses(bases, class_name)
        paths == InheritancePaths(bases, class_name)
        start(k) == PathRank(paths, {direct[k]})
        stop(k) == IF k = Len(direct) THEN Len(classes) ELSE start(k + 1) - 1
    IN  /\ direct # <<>> => start(1) = 1
        /\ direct = <<>> => classes = <<>>
        /\ \A k \in 1..Len(direct) :
               /\ classes[start(k)] = direct[k]
               /\ {classes[i] : i \in (start(k) + 1)..stop(k)}
                      = Descendants(bases, direct[k])

Occurrences(classes, c) == Cardinality({i \in 1..Len(classes) : classes[i] = c})

\* C12: Utils.get_subclasses(cls) returns the direct and indirect subclasses of
\* cls and nothing else (cls itself is not in the list), in depth-first
\* pre-order: each direct subclass is immediately followed by all of its own
\* descendants before the next direct subclass.  A class is listed once for
\* every inheritance path that leads from cls to it: exactly once when no
\* class below cls has more than one base below cls.
C12_GetSubclasses ==
    last.op = "get_subclasses" =>
        /\ Listed(last.classes) = Descendants(last.bases, last.class_name)
        /\ last.class_name \notin Listed(last.classes)
        /\ PreOrder(last.bases, last.class_name, last.classes)
        /\ Blocks(last.bases, last.class_name, last.classes)
        /\ LET paths == InheritancePaths(last.bases, last.class_name)
           IN  \A c \in Classes(last.bases) :
                   Occurrences(last.classes, c)
                       = Cardinality({S \in paths : SetMax(S) = c})
        /\ (\A c \in Descendants(last.bases, last.class_name) :
                Cardinality(last.bases[c]
                    \cap ({last.class_name} \cup Descendants(last.bases, last.class_name)))
                    <= 1)
               => \A c \in Descendants(last.bases, last.class_name) :
                      Occurrences(last.classes, c) = 1

\* A direct subclass with two descendants, followed by a second direct subclass.
C12_Witness ==
    /\ last.op = "get_subclasses"
    /\ last.bases = <<{}, {1}, {2}, {2}, {1}>>
    /\ last.class_name = 1
    /\ last.classes = <<2, 3, 4, 5>>

\* C12 as stated, the returned list read as a listing of the subclasses: every
\* direct and indirect subclass and nothing else, each one once, every direct
\* subclass followed by all of its descendants before the next direct subclass.
C12_Original ==
    last.op = "get_subclasses" =>
        /\ Listed(last.classes) = Descendants(last.bases, last.class_name)
        /\ last.class_name \notin Listed(last.classes)
        /\ Len(last.classes) = Cardinality(Descendants(last.bases, last.class_name))
        /\ Blocks(last.bases, last.class_name, last.classes)

(***************************************************************************)
(* Bin.__init__ (bin.py).  The base stands on z = 0 and is known by the    *)
(* height of its bounding box; the steps the constructor takes inside its  *)
(* builder are recorded in the order it takes them.                        *)
(***************************************************************************)
MaxUnits == 3      \* height_in_units: 0..MaxUnits
UnitHeight == 7    \* millimetres per gridfinity height unit

\* A low plain base, the standard base (7.8035... high, taken as 39/5), a tall one.
BaseHeights == {R(5), Frac(39, 5), R(14)}
BinHeights == {R(0), R(10), Frac(7, 2)}
BinUnits == 0..MaxUnits

\* A mistaken variant: one of the two heights is enough for the error.
both_heights_either(height, height_in_units) == height # R(0) \/ height_in_units # 0

\* if height and height_in_units
both_heights(height, height_in_units) == height # R(0) /\ height_in_units # 0

\* The amount the top face is extruded by.
bin_height(base_height, height, height_in_units) ==
    IF height_in_units # 0
    THEN RSub(R(height_in_units * UnitHeight), base_height)
    ELSE height

\* The height of the part after extrude(to_extrude=face, amount) on the top
\* face with Mode.ADD: the slab between the face and the face moved by amount
\* is united with the base.
extruded_height(base_height, amount) ==
    LET moved_top == RAdd(base_height, amount)
    IN  RSub(RMax(base_height, moved_top), RMin(R(0), moved_top))

\* A mistaken variant: the lip is added before the compartments are cut.
build_steps_lip_first(compartments, lip) ==
    <<"add(base)", "extrude">>
        \o (IF lip THEN <<"lip.create">> ELSE <<>>)
        \o (IF compartments THEN <<"compartments.create">> ELSE <<>>)
        \o <<"super().__init__">>

\* The statements of the with block and the one after it, in program order.
build_steps(compartments, lip) ==
    <<"add(base)", "extrude">>
        \o (IF compartments THEN <<"compartments.create">> ELSE <<>>)
        \o (IF lip THEN <<"lip.create">> ELSE <<>>)
        \o <<"super().__init__">>

\* The path handed to lip.create: the outer wire of the face that
\* get_face_by_direction(part, Direction.TOP) picks from the part as it is when
\* lip.create is called, that is after the steps made before it.
NoPath == [face |-> "none", wire |-> "none", part |-> <<>>]
lip_path(steps) ==
    IF \E i \in 1..Len(steps) : steps[i] = "lip.create"
    THEN [face |-> "TOP", wire |-> "outer_wire",
          part |-> SubSeq(steps, 1,
                          (CHOOSE i \in 1..Len(steps) : steps[i] = "lip.create") - 1)]
    ELSE NoPath

\* Bin.__init__.  kernel is what extrude does with an amount of 0.
Bin__init__(base_height, height, height_in_units, compartments, lip, kernel) ==
    LET call == [op |-> "Bin", base_height |-> base_height, height |-> height,
                 height_in_units |-> height_in_units, compartments |-> compartments,
                 lip |-> lip]
        amount == bin_height(base_height, height, height_in_units)
    IN  IF both_heights(height, height_in_units)
        THEN call @@ [status |-> "ValueError",
                      msg |-> "height or height_in_units can be defined, not both",
                      steps |-> <<>>, lip_path |-> NoPath,
                      bin_height |-> R(0), body_height |-> R(0)]
        ELSE IF amount = R(0) /\ kernel = "ValueError"
        THEN call @@ [status |-> "ValueError", msg |-> "kernel",
                      steps |-> <<"add(base)", "extrude">>, lip_path |-> NoPath,
                      bin_height |-> amount, body_height |-> base_height]
        ELSE call @@ [status |-> "ok", msg |-> "",
                      steps |-> build_steps(compartments, lip),
                      lip_path |-> lip_path(build_steps(compartments, lip)),
                      bin_height |-> amount,
                      body_height |-> extruded_height(base_height, amount)]

BinInit ==
    /\ last = NoCall
    /\ \E base_height \in BaseHeights, height \in BinHeights, height_in_units \in BinUnits,
          compartments \in BOOLEAN, lip \in BOOLEAN, kernel \in KernelOutcomes :
           /\ last' = Bin__init__(base_height, height, height_in_units, compartments, lip,
                                  kernel)
           /\ UNCHANGED <<grid, compartment_list, inner_wall, outer_wall, ctor, result>>

NextBin == BinInit

SpecBin == Init /\ [][NextBin]_vars

BothHeightsError ==
    /\ last.status = "ValueError"
    /\ last.msg = "height or height_in_units can be defined, not both"

\* C13: Bin raises ValueError when both height and height_in_units are
\* non-zero, before the base is added or any geometry is built; when at most
\* one of them is non-zero that error is not raised.
C13_BothHeights ==
    last.op = "Bin" =>
        /\ (last.height # R(0) /\ last.height_in_units # 0) =>
               (BothHeightsError /\ last.steps = <<>>)
        /\ (last.height = R(0) \/ last.height_in_units = 0) => ~BothHeightsError

\* Both heights given, compartments and a lip asked for: nothing is built.
C13_Witness ==
    /\ last.op = "Bin"
    /\ last.height = R(10)
    /\ last.height_in_units = 2
    /\ last.compartments
    /\ last.lip
    /\ BothHeightsError
    /\ last.steps = <<>>

\* C14 as stated: a Bin built with height_in_units = u >= 1 and no lip is
\* exactly 7 * u high in total, for any base, the top face being extruded by
\* 7 * u minus the height of the base's bounding box.
C14_UnitsHeight ==
    (last.op = "Bin" /\ last.status = "ok" /\ last.height_in_units >= 1 /\ ~last.lip) =>
        /\ last.bin_height = RSub(R(UnitHeight * last.height_in_units), last.base_height)
        /\ last.body_height = R(UnitHeight * last.height_in_units)

(***************************************************************************)
(* Features (features.py): Label and Scoop, the two compartment features   *)
(* that cut into their parent, and ObjectFeature.apply.                    *)
(* What a call into the geometry kernel does (chamfer, fillet, extrude,    *)
(* picking a face or an edge of the parent) is not decided by this code:   *)
(* each such call is an input that either succeeds or raises.              *)
(***************************************************************************)
MaxAngle == 91     \* Label(angle): whole degrees -1..MaxAngle (and some fractions)
max_angle == 90    \* Label._max_angle

RLeq(a, b) == ~RLess(b, a)

LabelAngles ==
    {R(a) : a \in (-1)..MaxAngle}
        \cup {Frac(-1, 10), Frac(1, 10), Frac(899, 10), Frac(901, 10), Frac(1, 10000000)}

\* A mistaken variant: an angle of 0 is refused.
angle_allowed_positive(angle) == RLess(R(0), angle) /\ RLeq(angle, R(max_angle))

\* 0 <= angle <= self._max_angle
angle_allowed(angle) == RLeq(R(0), angle) /\ RLeq(angle, R(max_angle))

\* Label.__init__
Label__init__(angle) ==
    IF ~angle_allowed(angle)
    THEN [op |-> "Label", given |-> angle, status |-> "ValueError",
          msg |-> "Label angle needs to be between 0 and 90", angle |-> R(0)]
    ELSE [op |-> "Label", given |-> angle, status |-> "ok", msg |-> "",
          angle |-> IF angle = R(0) THEN Frac(1, 10000000) ELSE angle]

\* Exceptions: the type, the message and the exception it was raised from.
NoException == [type |-> "none", msg |-> "", cause |-> "none"]
KernelException(type) == [type |-> type, msg |-> "kernel", cause |-> "none"]
CallOutcomes == {"ok", "ValueError", "RuntimeError"}
SelectOutcomes == {"ok", "IndexError"}

\* A mistaken variant: the kernel's ValueError is caught and dropped.
reraise_dropped(exception, msg) ==
    IF exception.type = "ValueError" THEN NoException ELSE exception

\* except ValueError as exp: raise ValueError(msg) from exp
reraise(exception, msg) ==
    IF exception.type = "ValueError"
    THEN [type |-> "ValueError", msg |-> msg, cause |-> exception.type]
    ELSE exception

\* The calls of a block one after the other, up to the first that raises:
\* the names of the calls that changed the part, and the exception if any.
RECURSIVE run_calls(_, _)
run_calls(calls, done) ==
    IF calls = <<>> THEN [applied |-> done, raised |-> NoException]
    ELSE IF Head(calls).outcome # "ok"
    THEN [applied |-> done, raised |-> KernelException(Head(calls).outcome)]
    ELSE run_calls(Tail(calls), IF Head(calls).changes THEN Append(done, Head(calls).name)
                                 ELSE done)

Call(name, outcome, changes) == [name |-> name, outcome |-> outcome, changes |-> changes]

\* Label.apply: the top face and its back edge are picked, then inside the
\* try the edge is chamfered and the chamfer face cut 1 down.
Label_apply(angle, select, chamfer, extrude) ==
    LET call == [op |-> "Label.apply", angle |-> angle, select |-> select,
                 chamfer |-> chamfer, extrude |-> extrude]
        picked == run_calls(<<Call("faces", select, FALSE)>>, <<>>)
        tried == run_calls(<<Call("chamfer", chamfer, TRUE), Call("extrude", extrude, TRUE)>>,
                           <<>>)
    IN  IF picked.raised # NoException
        THEN call @@ picked
        ELSE call @@ [applied |-> tried.applied,
                      raised |-> reraise(tried.raised,
                                    "Label could not be created, Parent object too small")]

ScoopRadii == {R(5), R(30)}
WallCorrections == {R(0), R(2)}

\* Scoop.apply: with a wall correction the front face is picked (front) and
\* then cut back (wall); the bottom face and its front edge are picked
\* (select); inside the try the edge is filleted.
Scoop_apply(radius, wall_correction, front, wall, select, fillet) ==
    LET call == [op |-> "Scoop.apply", radius |-> radius,
                 wall_correction |-> wall_correction, front |-> front, wall |-> wall,
                 select |-> select, fillet |-> fillet]
        before == run_calls((IF wall_correction # R(0)
                             THEN <<Call("faces", front, FALSE),
                                    Call("extrude", wall, TRUE)>>
                             ELSE <<>>)
                                \o <<Call("faces", select, FALSE)>>, <<>>)
        tried == run_calls(<<Call("fillet", fillet, TRUE)>>, before.applied)
    IN  IF before.raised # NoException
        THEN call @@ before
        ELSE call @@ [applied |-> tried.applied,
                      raised |-> reraise(tried.raised,
                                    "Scoop could not be created, Parent object too small")]

\* ObjectFeature.apply: the calls it makes, in order.  feature_location is
\* "None" or the name of a FeatureLocation; context_part is "None" for a
\* builder that holds no part.
FeatureLocations == {"None", "TopMiddle", "BottomMiddle", "TopCorners", "BottomCorners",
                     "BottomSides"}
ContextParts == {"None", "box", "bin"}

\* A mistaken variant: the object is created once more after the location is left.
ObjectFeature_apply_again(feature_location, context_part) ==
    IF feature_location # "None"
    THEN [op |-> "ObjectFeature.apply", feature_location |-> feature_location,
          context_part |-> context_part, status |-> "ok",
          calls |-> <<[name |-> "apply_to", arg |-> context_part],
                      [name |-> "create_obj", arg |-> ""],
                      [name |-> "exit", arg |-> ""],
                      [name |-> "create_obj", arg |-> ""]>>]
    ELSE [op |-> "ObjectFeature.apply", feature_location |-> feature_location,
          context_part |-> context_part, status |-> "ok",
          calls |-> <<[name |-> "create_obj", arg |-> ""]>>]

ObjectFeature_apply(feature_location, context_part) ==
    LET call == [op |-> "ObjectFeature.apply", feature_location |-> feature_location,
                 context_part |-> context_part]
    IN  IF feature_location # "None"
        THEN IF context_part = "None"
             THEN call @@ [status |-> "ValueError", calls |-> <<>>]
             ELSE call @@ [status |-> "ok",
                           calls |-> <<[name |-> "apply_to", arg |-> context_part],
                                       [name |-> "create_obj", arg |-> ""],
                                       [name |-> "exit", arg |-> ""]>>]
        ELSE call @@ [status |-> "ok", calls |-> <<[name |-> "create_obj", arg |-> ""]>>]

LabelInit ==
    /\ last = NoCall
    /\ \E angle \in LabelAngles :
           /\ last' = Label__init__(angle)
           /\ UNCHANGED <<grid, compartment_list, inner_wall, outer_wall, ctor, result>>

LabelApply ==
    /\ last = NoCall
    /\ \E angle \in {a \in LabelAngles : Label__init__(a).status = "ok"},
          select \in SelectOutcomes, chamfer \in CallOutcomes, extrude \in CallOutcomes :
           /\ last' = Label_apply(Label__init__(angle).angle, select, chamfer, extrude)
           /\ UNCHANGED <<grid, compartment_list, inner_wall, outer_wall, ctor, result>>

ScoopApply ==
    /\ last = NoCall
    /\ \E radius \in ScoopRadii, wall_correction \in WallCorrections,
          front \in SelectOutcomes, wall \in CallOutcomes, select \in SelectOutcomes,
          fillet \in CallOutcomes :
           /\ last' = Scoop_apply(radius, wall_correction, front, wall, select, fillet)
           /\ UNCHANGED <<grid, compartment_list, inner_wall, outer_wall, ctor, result>>

ObjectFeatureApply ==
    /\ last = NoCall
    /\ \E feature_location \in FeatureLocations, context_part \in ContextParts :
           /\ last' = ObjectFeature_apply(feature_location, context_part)
           /\ UNCHANGED <<grid, compartment_list, inner_wall, outer_wall, ctor, result>>

NextFeatures == LabelInit \/ LabelApply \/ ScoopApply \/ ObjectFeatureApply

SpecFeatures == Init /\ [][NextFeatures]_vars

\* C15: Label(angle) raises ValueError exactly when angle < 0 or angle > 90;
\* otherwise the stored angle is the given one, except that 0 is stored as
\* 0.0000001, so a stored angle is strictly positive and at most 90.
C15_LabelAngle ==
    last.op = "Label" =>
        /\ last.status = "ValueError" <=>
               (RLess(last.given, R(0)) \/ RLess(R(90), last.given))
        /\ last.status # "ValueError" =>
               /\ last.status = "ok"
               /\ last.angle = IF last.given = R(0) THEN Frac(1, 10000000) ELSE last.given
               /\ RLess(R(0), last.angle)
               /\ RLeq(last.angle, R(90))

\* Label(0) is accepted and keeps 0.0000001.
C15_Witness ==
    /\ last.op = "Label"
    /\ last.given = R(0)
    /\ last.status = "ok"
    /\ last.angle = Frac(1, 10000000)

\* The kernel raised ValueError inside the try block of the feature.
TooSmall ==
    \/ /\ last.op = "Label.apply"
       /\ last.select = "ok"
       /\ last.chamfer = "ValueError" \/ (last.chamfer = "ok" /\ last.extrude = "ValueError")
    \/ /\ last.op = "Scoop.apply"
       /\ last.wall_correction = R(0) \/ (last.front = "ok" /\ last.wall = "ok")
       /\ last.select = "ok"
       /\ last.fillet = "ValueError"

TooSmallMessage ==
    IF last.op = "Label.apply" THEN "Label could not be created, Parent object too small"
    ELSE "Scoop could not be created, Parent object too small"

\* C16: when the parent object is too small for the feature, Label.apply and
\* Scoop.apply fail with ValueError('<Label|Scoop> could not be created, Parent
\* object too small') raised from the kernel's ValueError: no other type of
\* exception escapes for that cause and it is never swallowed; the message is
\* raised for no other cause.
C16_TooSmall ==
    last.op \in {"Label.apply", "Scoop.apply"} =>
        /\ TooSmall =>
               last.raised = [type |-> "ValueError", msg |-> TooSmallMessage,
                              cause |-> "ValueError"]
        /\ last.raised.msg = TooSmallMessage => TooSmall

\* A scoop whose fillet fails after the wall correction was cut.
C16_Witness ==
    /\ last.op = "Scoop.apply"
    /\ last.wall_correction = R(2)
    /\ last.fillet = "ValueError"
    /\ last.raised.type = "ValueError"
    /\ last.raised.msg = "Scoop could not be created, Parent object too small"
    /\ last.raised.cause = "ValueError"
    /\ last.applied = <<"extrude">>

CallsNamed(calls, name) == {i \in 1..Len(calls) : calls[i].name = name}

\* create_obj is called once, and that inside the one apply_to(context.part).
OnceInsideLocation ==
    /\ Cardinality(CallsNamed(last.calls, "apply_to")) = 1
    /\ Cardinality(CallsNamed(last.calls, "create_obj")) = 1
    /\ \E i \in CallsNamed(last.calls, "apply_to") :
           /\ last.calls[i].arg = last.context_part
           /\ \E j \in CallsNamed(last.calls, "create_obj"),
                 k \in CallsNamed(last.calls, "exit") : i < j /\ j < k

OnceWithoutLocation ==
    /\ CallsNamed(last.calls, "apply_to") = {}
    /\ Cardinality(CallsNamed(last.calls, "create_obj")) = 1

\* C17 (amended): ObjectFeature.apply(context) with a feature location and a
\* context that holds a part enters that location's apply_to exactly once,
\* with context.part as argument, and calls create_obj exactly once inside
\* it; with a feature location and a context without a part it raises
\* ValueError and calls neither; with None as location it calls create_obj
\* once and never apply_to.
C17_ObjectFeature ==
    last.op = "ObjectFeature.apply" =>
        IF last.feature_location = "None" THEN last.status = "ok" /\ OnceWithoutLocation
        ELSE IF last.context_part # "None" THEN last.status = "ok" /\ OnceInsideLocation
        ELSE last.status = "ValueError" /\ last.calls = <<>>

C17_Witness ==
    /\ last.op = "ObjectFeature.apply"
    /\ last.feature_location = "BottomCorners"
    /\ last.context_part = "bin"
    /\ last.calls = <<[name |-> "apply_to", arg |-> "bin"],
                      [name |-> "create_obj", arg |-> ""],
                      [name |-> "exit", arg |-> ""]>>

\* C17 as stated: with a feature location, whatever the context holds.
C17_Original ==
    last.op = "ObjectFeature.apply" =>
        IF last.feature_location = "None" THEN OnceWithoutLocation ELSE OnceInsideLocation

(***************************************************************************)
(* Objects that carry features (baseplate.py, compartments.py):            *)
(* BasePlateBlock and its subclasses, BasePlate, BasePlateEqual and        *)
(* Compartment.  A feature is known by its number; the features argument   *)
(* is None, one feature, or a list.  Whether a feature's apply raises is   *)
(* an input: the set of features that fail.                                *)
(***************************************************************************)
MaxFeatures == 2   \* features 1..MaxFeatures, in lists of at most MaxFeatures
MaxPlate == 3      \* BasePlateEqual(size_x, size_y) with 0..MaxPlate

Features == 1..MaxFeatures
FeatureLists == UNION {[1..n -> Features] : n \in 0..MaxFeatures}
NoFeatures == [given |-> FALSE, iterable |-> FALSE, items |-> <<>>]
FeatureArgs ==
    {NoFeatures}
        \cup {[given |-> TRUE, iterable |-> FALSE, items |-> <<f>>] : f \in Features}
        \cup {[given |-> TRUE, iterable |-> TRUE, items |-> l] : l \in FeatureLists}

\* A mistaken variant: None is not replaced, and ends up as the one entry (0).
normalise_features_keep_none(features) ==
    IF ~features.given THEN <<0>> ELSE features.items

\* if not features: features = []
\* self.features = features if isinstance(features, Iterable) else [features]
normalise_features(features) ==
    LET not_features == ~features.given \/ (features.iterable /\ features.items = <<>>)
        list == IF not_features THEN [given |-> TRUE, iterable |-> TRUE, items |-> <<>>]
                ELSE features
    IN  IF list.iterable THEN list.items ELSE <<list.items[1]>>

\* for feature in self.features: feature.apply(part)
RECURSIVE apply_loop(_, _, _, _)
apply_loop(features, part, failing, applies) ==
    IF features = <<>> THEN [status |-> "ok", applies |-> applies]
    ELSE LET applied == Append(applies, [feature |-> Head(features), context |-> part])
         IN  IF Head(features) \in failing
             THEN [status |-> "ValueError", applies |-> applied]
             ELSE apply_loop(Tail(features), part, failing, applied)

BlockClasses == {"BasePlateBlockFrame", "BasePlateBlockFull", "BasePlateBlockSkeleton"}

\* BasePlateBlock.__init__ (and Compartment.__init__): the object.
FeatureObject(cls, features) == [cls |-> cls, features |-> normalise_features(features)]

\* create_obj of the blocks and Compartment.create: each opens one builder,
\* named after the object it belongs to, and applies the object's features to
\* it.  BasePlateBlockFull builds a BasePlateBlockFrame() without features
\* first; BasePlateBlockSkeleton calls BasePlateBlockFull.create_obj once.
create_obj(self, part, failing) ==
    LET frame == IF self.cls \in {"BasePlateBlockFull", "BasePlateBlockSkeleton"}
                 THEN apply_loop(FeatureObject("BasePlateBlockFrame", NoFeatures).features,
                                 "frame.part", failing, <<>>)
                 ELSE [status |-> "ok", applies |-> <<>>]
    IN  apply_loop(self.features, part, failing, frame.applies)

PlateBlock == [size |-> <<R(42), R(42), Frac(93, 20)>>]
PlateGrids ==
    {<<>>, <<<<TRUE>>>>, <<<<FALSE>>>>, <<<<TRUE, TRUE>>, <<TRUE, TRUE>>>>, HolesGrid}
NoArg == [given |-> FALSE, value |-> R(0)]
Placements ==
    {[rotation |-> <<0, 0, 0>>, align |-> "None", mode |-> "ADD"],
     [rotation |-> <<0, 0, 90>>, align |-> "CENTER", mode |-> "SUBTRACT"],
     [rotation |-> <<45, 0, 0>>, align |-> "MIN", mode |-> "PRIVATE"]}
BlockArgs ==
    {[given |-> FALSE, value |-> FeatureObject("BasePlateBlockFrame", NoFeatures)],
     [given |-> TRUE, value |-> FeatureObject("BasePlateBlockFull", NoFeatures)],
     [given |-> TRUE,
      value |-> FeatureObject("BasePlateBlockFrame",
                              [given |-> TRUE, iterable |-> FALSE, items |-> <<1>>])]}

\* BasePlate.__init__
BasePlate__init__(g, baseplate_block, features, placement, failing) ==
    LET block == IF ~baseplate_block.given
                 THEN FeatureObject("BasePlateBlockFrame", NoFeatures)
                 ELSE baseplate_block.value
        self == FeatureObject("BasePlate", features)
        call == [cls |-> "BasePlate", grid |-> g, block |-> block,
                 features_arg |-> features, features |-> self.features,
                 placement |-> placement, failing |-> failing]
        built == create_obj(block, "block.part", failing)
        placed == place_by_grid(PlateBlock, g, NoArg, NoArg)
    IN  IF built.status # "ok" THEN call @@ built
        ELSE IF placed.status # "ok"
        THEN call @@ [status |-> placed.status, applies |-> built.applies]
        ELSE call @@ apply_loop(self.features, "self.part", failing, built.applies)

\* A mistaken variant: size_x rows of size_y cells.
equal_plate_grid_transposed(size_x, size_y) ==
    [row \in 1..size_x |-> [cell \in 1..size_y |-> TRUE]]

\* [[True] * size_x for _ in range(size_y)]
equal_plate_grid(size_x, size_y) ==
    [row \in 1..size_y |-> [cell \in 1..size_x |-> TRUE]]

\* BasePlateEqual.__init__: what it hands to BasePlate.__init__, and what that makes.
BasePlateEqual__init__(size_x, size_y, baseplate_block, features, placement, failing) ==
    LET block == IF ~baseplate_block.given
                 THEN [given |-> TRUE, value |-> FeatureObject("BasePlateBlockFrame", NoFeatures)]
                 ELSE baseplate_block
        g == equal_plate_grid(size_x, size_y)
    IN  [op |-> "BasePlateEqual", size_x |-> size_x, size_y |-> size_y,
         baseplate_block |-> baseplate_block, super_args |-> <<g, block, features, placement>>]
            @@ BasePlate__init__(g, block, features, placement, failing)

\* A block or a compartment is made with its features and built once.
BuildWithFeatures ==
    /\ last = NoCall
    /\ \E cls \in BlockClasses \cup {"Compartment"}, features \in FeatureArgs,
          failing \in SUBSET Features :
           /\ last' = [op |-> "build", cls |-> cls, features_arg |-> features,
                       features |-> FeatureObject(cls, features).features,
                       failing |-> failing]
                          @@ create_obj(FeatureObject(cls, features), "self.part", failing)
           /\ UNCHANGED <<grid, compartment_list, inner_wall, outer_wall, ctor, result>>

BasePlateInit ==
    /\ last = NoCall
    /\ \E g \in PlateGrids, baseplate_block \in BlockArgs, features \in FeatureArgs,
          placement \in Placements, failing \in SUBSET Features :
           /\ last' = [op |-> "build"]
                          @@ BasePlate__init__(g, baseplate_block, features, placement, failing)
           /\ UNCHANGED <<grid, compartment_list, inner_wall, outer_wall, ctor, result>>

BasePlateEqualInit ==
    /\ last = NoCall
    /\ \E size_x \in 0..MaxPlate, size_y \in 0..MaxPlate, baseplate_block \in BlockArgs,
          features \in FeatureArgs, placement \in Placements, failing \in SUBSET Features :
           /\ last' = BasePlateEqual__init__(size_x, size_y, baseplate_block, features,
                                             placement, failing)
           /\ UNCHANGED <<grid, compartment_list, inner_wall, outer_wall, ctor, result>>

NextBasePlate == BuildWithFeatures \/ BasePlateInit \/ BasePlateEqualInit

SpecBasePlate == Init /\ [][NextBasePlate]_vars

\* The applies made with the builder of the object itself, in the order made.
RECURSIVE OwnApplies(_)
OwnApplies(applies) ==
    IF applies = <<>> THEN <<>>
    ELSE (IF Head(applies).context = "self.part" THEN <<Head(applies).feature>> ELSE <<>>)
             \o OwnApplies(Tail(applies))

\* C18: the features argument of BasePlateBlock, BasePlate and Compartment is
\* normalised to a list (None or an empty value gives [], a single feature a
\* one-element list, a list is kept), and building the object calls apply
\* exactly once on every feature of that list, in list order, with the
\* object's own builder context.
C18_Features ==
    last.op \in {"build", "BasePlateEqual"} =>
        /\ last.features =
               IF ~last.features_arg.given THEN <<>>
               ELSE IF last.features_arg.iterable THEN last.features_arg.items
               ELSE <<last.features_arg.items[1]>>
        /\ last.status = "ok" => OwnApplies(last.applies) = last.features

\* A base plate with a list of two features, over a block with one of its own.
C18_Witness ==
    /\ last.op = "build"
    /\ last.cls = "BasePlate"
    /\ last.features_arg = [given |-> TRUE, iterable |-> TRUE, items |-> <<2, 1>>]
    /\ last.status = "ok"
    /\ last.applies = <<[feature |-> 1, context |-> "block.part"],
                        [feature |-> 2, context |-> "self.part"],
                        [feature |-> 1, context |-> "self.part"]>>

\* C19: BasePlateEqual(size_x, size_y, ...) constructs the BasePlate from a
\* grid of size_y rows, each of size_x True cells, and passes baseplate_block
\* (a new BasePlateBlockFrame when none was given), features, rotation, align
\* and mode on unchanged.
C19_BasePlateEqual ==
    last.op = "BasePlateEqual" =>
        /\ Len(last.super_args[1]) = last.size_y
        /\ \A row \in 1..Len(last.super_args[1]) :
               /\ Len(last.super_args[1][row]) = last.size_x
               /\ \A cell \in 1..last.size_x : last.super_args[1][row][cell] = TRUE
        /\ last.super_args[2].given
        /\ last.super_args[2].value =
               IF last.baseplate_block.given THEN last.baseplate_block.value
               ELSE [cls |-> "BasePlateBlockFrame", features |-> <<>>]
        /\ last.super_args[3] = last.features_arg
        /\ last.super_args[4] = last.placement
        /\ last.grid = last.super_args[1]
        /\ last.block = last.super_args[2].value

\* The tests' BasePlateEqual(size_x=2, size_y=3, features=feature).
C19_Witness ==
    /\ last.op = "BasePlateEqual"
    /\ last.size_x = 2
    /\ last.size_y = 3
    /\ ~last.baseplate_block.given
    /\ last.grid = <<<<TRUE, TRUE>>, <<TRUE, TRUE>>, <<TRUE, TRUE>>>>
    /\ last.block.cls = "BasePlateBlockFrame"
    /\ last.features_arg = [given |-> TRUE, iterable |-> FALSE, items |-> <<1>>]
    /\ last.status = "ok"

(***************************************************************************)
(* BottomSides (feature_locations.py): locations along the four edges of   *)
(* the bottom face of a part's bounding box.  A location is known by the   *)
(* edge it lies on and its x and y on the bottom face.  The kernel gives   *)
(* each location the rotation that turns its local y axis into the face,   *)
(* at a right angle to its edge (the tests find the cuts offset inwards),  *)
(* so the final Locations((0, offset, 0)) moves it inwards by offset.      *)
(***************************************************************************)
MaxNr == 3         \* BottomSides(nr_x, nr_y, ...) with 0..MaxNr

SidesParts ==
    {BoxAt(<<R(50), R(50), R(30)>>, Zero3),
     BoxAt(<<R(42), R(84), R(7)>>, <<R(21), R(0), Frac(7, 2)>>)}
SidesOffsets == {R(0), R(1), R(2), Frac(1, 2)}

\* A mistaken variant: the points divide the edge evenly, ends left free.
edge_parameter_even(nr_of_points, i) == Frac(i + 1, nr_of_points + 1)

\* 1 / (nr_of_points * 2) * (i * 2 + 1)
edge_parameter(nr_of_points, i) == RMul(RDiv(R(1), R(nr_of_points * 2)), R(i * 2 + 1))

\* The edges of the bottom face parallel to an axis: face.edges().filter_by(axis).
edges_along(axis) == IF axis = "X" THEN <<"front", "back">> ELSE <<"left", "right">>

\* One location on an edge at parameter t, then moved by offset along its local y.
edge_location(bbox, edge, t, offset) ==
    LET along_x == RAdd(bbox.min[1], RMul(Extent(bbox, 1), t))
        along_y == RAdd(bbox.min[2], RMul(Extent(bbox, 2), t))
    IN  CASE edge = "front" -> [edge |-> edge, x |-> along_x, y |-> RAdd(bbox.min[2], offset)]
          [] edge = "back" -> [edge |-> edge, x |-> along_x, y |-> RSub(bbox.max[2], offset)]
          [] edge = "left" -> [edge |-> edge, x |-> RAdd(bbox.min[1], offset), y |-> along_y]
          [] edge = "right" -> [edge |-> edge, x |-> RSub(bbox.max[1], offset), y |-> along_y]

\* BottomSides._get_locations_on_edges, with the offset already applied.
RECURSIVE get_locations_on_edges(_, _, _, _, _)
get_locations_on_edges(bbox, edges, nr_of_points, offset, pts_list) ==
    IF edges = <<>> THEN pts_list
    ELSE get_locations_on_edges(bbox, Tail(edges), nr_of_points, offset,
             pts_list \o [k \in 1..nr_of_points |->
                             edge_location(bbox, Head(edges),
                                           edge_parameter(nr_of_points, k - 1), offset)])

\* BottomSides(nr_x, nr_y, offset).apply_to(part): the locations it yields.
BottomSides_apply_to(nr_x, nr_y, offset, part) ==
    [op |-> "BottomSides.apply_to", nr_x |-> nr_x, nr_y |-> nr_y, offset |-> offset,
     part |-> part,
     pts |-> get_locations_on_edges(part, edges_along("X"), nr_x, offset, <<>>)
                 \o get_locations_on_edges(part, edges_along("Y"), nr_y, offset, <<>>)]

BottomSidesApplyTo ==
    /\ last = NoCall
    /\ \E nr_x \in 0..MaxNr, nr_y \in 0..MaxNr, offset \in SidesOffsets, part \in SidesParts :
           /\ last' = BottomSides_apply_to(nr_x, nr_y, offset, part)
           /\ UNCHANGED <<grid, compartment_list, inner_wall, outer_wall, ctor, result>>

(***************************************************************************)
(* BottomCorners and TopCorners (feature_locations.py): four locations on  *)
(* a circle around the centre of the bottom or top face, at -45, 45, 135   *)
(* and 225 degrees.  The radius is a multiple of the square root of 2, and *)
(* so are sine and cosine of these angles: the coordinates are rational    *)
(* whenever (X^2 + Y^2) / 2 is the square of a rational, and the parts     *)
(* tried here are chosen so.                                               *)
(***************************************************************************)
MaxRoot == 100     \* square roots are looked for among 0..MaxRoot

ISqrt(n) == CHOOSE k \in 0..MaxRoot : k * k = n
RSqrt(q) == <<ISqrt(q[1]), ISqrt(q[2])>>

CornerParts ==
    {BoxAt(<<R(50), R(50), R(30)>>, Zero3),
     BoxAt(<<R(42), R(42), R(7)>>, <<R(21), R(21), Frac(7, 2)>>),
     BoxAt(<<R(10), R(70), R(30)>>, Zero3),
     BoxAt(<<R(14), R(2), R(5)>>, <<R(3), R(-1), R(0)>>)}
CornerOffsets == {R(0), R(8), Frac(1, 2), R(-1)}

\* (polar_dist / 2 - polar_offset) divided by the square root of 2:
\* polar_dist = (X**2 + Y**2) ** 0.5, polar_offset = (offset**2 + offset**2) ** 0.5
polar_radius(bbox, offset) ==
    LET polar_dist == RSqrt(RDiv(RAdd(RMul(Extent(bbox, 1), Extent(bbox, 1)),
                                      RMul(Extent(bbox, 2), Extent(bbox, 2))), R(2)))
        polar_offset == RSqrt(RDiv(RAdd(RMul(offset, offset), RMul(offset, offset)), R(2)))
    IN  RSub(RDiv(polar_dist, R(2)), polar_offset)

\* PolarLocations(radius, 4, -45): the signs of cosine and sine of the four angles.
PolarSigns == <<<<1, -1>>, <<1, 1>>, <<-1, 1>>, <<-1, -1>>>>

\* Corners._apply_on_corners under BottomCorners (center turned 180 degrees
\* about x, at z = min) or TopCorners (z = max): the positions it yields.
Corners_apply_to(cls, offset, part) ==
    LET center == [i \in 1..3 |-> RDiv(RAdd(part.min[i], part.max[i]), R(2))]
        flip == IF cls = "BottomCorners" THEN -1 ELSE 1
        z == IF cls = "BottomCorners" THEN part.min[3] ELSE part.max[3]
        m == polar_radius(part, offset)
    IN  [op |-> "Corners.apply_to", cls |-> cls, offset |-> offset, part |-> part,
         pts |-> [k \in 1..4 |->
                     <<RAdd(center[1], RMul(R(PolarSigns[k][1]), m)),
                       RAdd(center[2], RMul(R(flip * PolarSigns[k][2]), m)),
                       z>>]]

CornersApplyTo ==
    /\ last = NoCall
    /\ \E cls \in {"BottomCorners", "TopCorners"}, offset \in CornerOffsets,
          part \in CornerParts :
           /\ last' = Corners_apply_to(cls, offset, part)
           /\ UNCHANGED <<grid, compartment_list, inner_wall, outer_wall, ctor, result>>

NextLocations == BottomSidesApplyTo \/ CornersApplyTo

SpecLocations == Init /\ [][NextLocations]_vars

OnEdge(pts, edge) == {i \in 1..Len(pts) : pts[i].edge = edge}

\* How far a location lies along its edge, and how far inside the face.
AlongEdge(bbox, pt) ==
    IF pt.edge \in {"front", "back"} THEN RSub(pt.x, bbox.min[1]) ELSE RSub(pt.y, bbox.min[2])
Inwards(bbox, pt) ==
    CASE pt.edge = "front" -> RSub(pt.y, bbox.min[2])
      [] pt.edge = "back" -> RSub(bbox.max[2], pt.y)
      [] pt.edge = "left" -> RSub(pt.x, bbox.min[1])
      [] pt.edge = "right" -> RSub(bbox.max[1], pt.x)
EdgeLength(bbox, edge) ==
    IF edge \in {"front", "back"} THEN Extent(bbox, 1) ELSE Extent(bbox, 2)

\* n locations on the edge, at L * (2i + 1) / (2n) along it, offset inwards.
EdgeHolds(edge, n) ==
    /\ Cardinality(OnEdge(last.pts, edge)) = n
    /\ {AlongEdge(last.part, last.pts[i]) : i \in OnEdge(last.pts, edge)} =
           {RDiv(RMul(EdgeLength(last.part, edge), R(2 * i + 1)), R(2 * n)) : i \in 0..(n - 1)}
    /\ \A i \in OnEdge(last.pts, edge) : Inwards(last.part, last.pts[i]) = last.offset

\* C20: BottomSides(nr_x, nr_y, offset).apply_to yields exactly 2 * nr_x +
\* 2 * nr_y locations on the bottom face: nr_x on each of the two edges
\* parallel to x and nr_y on each of the two parallel to y; along an edge of
\* length L the n locations are at L * (2i + 1) / (2n), i = 0..n-1, each moved
\* inwards by offset.
C20_BottomSides ==
    last.op = "BottomSides.apply_to" =>
        /\ Len(last.pts) = 2 * last.nr_x + 2 * last.nr_y
        /\ EdgeHolds("front", last.nr_x)
        /\ EdgeHolds("back", last.nr_x)
        /\ EdgeHolds("left", last.nr_y)
        /\ EdgeHolds("right", last.nr_y)

\* The tests' BottomSides(nr_x=2, nr_y=3, offset=1) on Box(50, 50, 30): ten
\* locations, among them (-12.5, -24) and (24, 16 2/3).
C20_Witness ==
    /\ last.op = "BottomSides.apply_to"
    /\ last.nr_x = 2
    /\ last.nr_y = 3
    /\ last.offset = R(1)
    /\ last.part = BoxAt(<<R(50), R(50), R(30)>>, Zero3)
    /\ Len(last.pts) = 10
    /\ \E i \in 1..Len(last.pts) :
           last.pts[i] = [edge |-> "front", x |-> Frac(-25, 2), y |-> R(-24)]
    /\ \E i \in 1..Len(last.pts) :
           last.pts[i] = [edge |-> "right", x |-> R(24), y |-> Frac(50, 3)]

\* C21 as stated: BottomCorners(offset) and TopCorners(offset) locate a
\* feature at the four corners of the bottom (resp. top) face of the part's
\* bounding box: for a box of size X by Y centred at (cx, cy) the locations
\* are (cx +/- (X/2 - offset), cy +/- (Y/2 - offset)) at z = min (resp. max),
\* for every X and Y.
C21_Corners ==
    last.op = "Corners.apply_to" =>
        LET cx == RDiv(RAdd(last.part.min[1], last.part.max[1]), R(2))
            cy == RDiv(RAdd(last.part.min[2], last.part.max[2]), R(2))
            dx == RSub(RDiv(Extent(last.part, 1), R(2)), last.offset)
            dy == RSub(RDiv(Extent(last.part, 2), R(2)), last.offset)
            z == IF last.cls = "BottomCorners" THEN last.part.min[3] ELSE last.part.max[3]
        IN  /\ Len(last.pts) = 4
            /\ {last.pts[k] : k \in 1..4} =
                   {<<RAdd(cx, RMul(R(sx), dx)), RAdd(cy, RMul(R(sy), dy)), z>> :
                        sx \in {-1, 1}, sy \in {-1, 1}}

PlatformCell(p) ==
    CHOOSE cell \in {last.cells[k] : k \in 1..Len(last.cells)} :
        cell.center = <<R(grid_size * (p[2] + 1)), R(-(grid_size * (p[1] + 1)))>>

\* C22: Utils.create_bin_platform spaces the grid cells at the standard 42 mm
\* and takes the 0.5 mm tolerance once from the outline of the merged cells,
\* not from every cell: for True cells spanning c columns and r rows the
\* platform measures 42*c - 0.5 by 42*r - 0.5 and is 2.8 high, and
\* neighbouring True cells merge without a gap between them.
C22_Platform ==
    (last.op = "create_bin_platform" /\ last.status = "ok") =>
        LET cells == TrueCells(last.grid)
            c == SetMax({p[2] : p \in cells}) + SetMax({-p[2] : p \in cells}) + 1
            r == SetMax({p[1] : p \in cells}) + SetMax({-p[1] : p \in cells}) + 1
        IN  /\ last.size = <<RSub(R(42 * c), Frac(1, 2)), RSub(R(42 * r), Frac(1, 2)),
                             Frac(14, 5)>>
            /\ \A p \in cells, q \in cells :
                   /\ (p[1] = q[1] /\ q[2] = p[2] + 1) =>
                          PlatformCell(p).max[1] = PlatformCell(q).min[1]
                   /\ (p[2] = q[2] /\ q[1] = p[1] + 1) =>
                          PlatformCell(q).max[2] = PlatformCell(p).min[2]

\* The tests' grid [[True, True], [True, False]]: 83.5 by 83.5 by 2.8.
C22_Witness ==
    /\ last.op = "create_bin_platform"
    /\ last.grid = <<<<TRUE, TRUE>>, <<TRUE, FALSE>>>>
    /\ last.status = "ok"
    /\ last.size = <<Frac(167, 2), Frac(167, 2), Frac(14, 5)>>
    /\ Len(last.cells) = 3

(***************************************************************************)
(* The unit rectangles of the created compartments, stated from the grid.  *)
(***************************************************************************)
UnitRect(c) ==
    {<<r, col>> : r \in c.r_index..(c.r_index + c.units_y - 1),
                  col \in c.c_index..(c.c_index + c.units_x - 1)}
CellsOf(g, v) == {p \in Positions(g) : Cell(g, p) = v}
NonZeroCells(g) == {p \in Positions(g) : Cell(g, p) # 0}
SolidRectangle(S) ==
    /\ S # {}
    /\ \E top, bottom \in {p[1] : p \in S}, left, right \in {p[2] : p \in S} :
           S = (top..bottom) \X (left..right)
AllSolid(g) == \A v \in NonZeroValues(g) : SolidRectangle(CellsOf(g, v))
Disjoint(comps) ==
    \A i, j \in 1..Len(comps) : i # j => UnitRect(comps[i]) \cap UnitRect(comps[j]) = {}

\* C23: when the cells of every non-zero value form one solid rectangle, the
\* unit rectangles of the created compartments are exactly those rectangles:
\* pairwise disjoint, covering every non-zero cell and no zero cell.
C23_SolidRectangles ==
    (Returned /\ AllSolid(grid)) =>
        /\ \A i \in 1..Len(Created) :
               UnitRect(Created[i]) = CellsOf(grid, Created[i].value)
        /\ Disjoint(Created)
        /\ UNION {UnitRect(Created[i]) : i \in 1..Len(Created)} = NonZeroCells(grid)

\* The docstring's grid: four rectangles, one of them 2 by 2.
C23_Witness ==
    /\ Returned
    /\ grid = DocstringGrid
    /\ AllSolid(grid)
    /\ \E i \in 1..Len(Created) : Created[i].units_x = 2 /\ Created[i].units_y = 2

\* C24 as stated: for every grid, every non-zero cell lies inside the unit
\* rectangle of the compartment created for its value, also when the cells of
\* a value are not contiguous.
C24_EveryCellInside ==
    Returned =>
        \A p \in NonZeroCells(grid) :
            \E i \in 1..Len(Created) :
                Created[i].value = Cell(grid, p) /\ p \in UnitRect(Created[i])

\* C25 as stated: for every grid, the unit rectangles of the created
\* compartments are pairwise disjoint and each contains only cells that hold
\* its own value, also when the cells of a value form an L shape.
C25_DisjointOwnValue ==
    Returned =>
        /\ Disjoint(Created)
        /\ \A i \in 1..Len(Created) :
               \A p \in UnitRect(Created[i]) : Cell(grid, p) = Created[i].value

\* The four sides of a created compartment, from its location and size.
SideLeft(c) == RSub(c.loc_x, RDiv(c.size_x, R(2)))
SideRight(c) == RAdd(c.loc_x, RDiv(c.size_x, R(2)))
SideTop(c) == RAdd(c.loc_y, RDiv(c.size_y, R(2)))
SideBottom(c) == RSub(c.loc_y, RDiv(c.size_y, R(2)))

\* C26: two created compartments of which one ends in the column (row)
\* directly before the one where the other starts have exactly inner_wall
\* between their facing sides, for every grid and every total size.
C26_InnerWall ==
    result.called =>
        \A i, j \in 1..Len(Created) :
            /\ Created[j].c_index = Created[i].c_index + Created[i].units_x
                   => RSub(SideLeft(Created[j]), SideRight(Created[i])) = inner_wall
            /\ Created[j].r_index = Created[i].r_index + Created[i].units_y
                   => RSub(SideBottom(Created[i]), SideTop(Created[j])) = inner_wall

\* A column neighbour and a row neighbour in a grid of three columns.
C26_Witness ==
    /\ Returned
    /\ NCols(grid) = 3
    /\ \E i, j \in 1..Len(Created) :
           Created[j].c_index = Created[i].c_index + Created[i].units_x
    /\ \E i, j \in 1..Len(Created) :
           Created[j].r_index = Created[i].r_index + Created[i].units_y

ReachesAllSides ==
    /\ \E i \in 1..Len(Created) : Created[i].c_index = 0
    /\ \E i \in 1..Len(Created) : Created[i].c_index + Created[i].units_x = NCols(grid)
    /\ \E i \in 1..Len(Created) : Created[i].r_index = 0
    /\ \E i \in 1..Len(Created) : Created[i].r_index + Created[i].units_y = NRows(grid)
RSetMax(S) == CHOOSE m \in S : \A x \in S : RLeq(x, m)
RSetMin(S) == CHOOSE m \in S : \A x \in S : RLeq(m, x)
ExtentX ==
    RSub(RSetMax({SideRight(Created[i]) : i \in 1..Len(Created)}),
         RSetMin({SideLeft(Created[i]) : i \in 1..Len(Created)}))
ExtentY ==
    RSub(RSetMax({SideTop(Created[i]) : i \in 1..Len(Created)}),
         RSetMin({SideBottom(Created[i]) : i \in 1..Len(Created)}))

\* C27: when the created compartments reach the first and last column and the
\* first and last row, their overall extent is size_x - 2*outer_wall by
\* size_y - 2*outer_wall; centred in an area of size_x by size_y that leaves
\* exactly outer_wall on each of the four sides.
C27_OuterWall ==
    (result.called /\ ReachesAllSides) =>
        /\ ExtentX = RSub(result.args[1], RMul(R(2), outer_wall))
        /\ ExtentY = RSub(result.args[2], RMul(R(2), outer_wall))
        /\ RDiv(RSub(result.args[1], ExtentX), R(2)) = outer_wall
        /\ RDiv(RSub(result.args[2], ExtentY), R(2)) = outer_wall

\* Two compartments that reach all four sides of a grid with a zero cell.
C27_Witness ==
    /\ Returned
    /\ ReachesAllSides
    /\ Len(Created) >= 2
    /\ \E p \in Positions(grid) : Cell(grid, p) = 0

\* C28: a call of create, whether it returns or raises, leaves grid,
\* compartment_list, inner_wall and outer_wall as they were before it: what
\* it writes is its own list of processed values.  A call with the arguments
\* of the call before it creates the same compartments with the same sizes
\* and locations.
C28_CreateFrame ==
    [][result'.calls > result.calls =>
          /\ grid' = grid
          /\ compartment_list' = compartment_list
          /\ inner_wall' = inner_wall
          /\ outer_wall' = outer_wall
          /\ (result.called /\ result'.args = result.args) =>
                 /\ result'.status = result.status
                 /\ result'.comps = result.comps]_vars

\* create has been called a second time on a grid in which a value occurs
\* again after it was processed, and made several compartments.
C28_Witness ==
    /\ result.calls = 2
    /\ Returned
    /\ Len(Created) >= 2
    /\ \E p, q \in Positions(grid) :
           p # q /\ Cell(grid, p) # 0 /\ Cell(grid, q) = Cell(grid, p)

\* C29 as stated: when Scoop.apply raises ValueError because the parent object
\* is too small, the part of the context is as it was before the call (no
\* kernel call has changed it), also when wall_correction is non-zero.
C29_ScoopUnchanged ==
    (last.op = "Scoop.apply" /\ TooSmall) => last.applied = <<>>

StepIndex(steps, name) == {i \in 1..Len(steps) : steps[i] = name}

\* C30: a Bin that is built adds the base first and extrudes the body second,
\* cuts the compartments exactly when they are given and adds the lip exactly
\* when it is given, each once; the compartments are never cut after the lip,
\* and the lip's path is the outer wire of the top face of the part as it is
\* after all earlier steps, the cut of the compartments included.
C30_BuildOrder ==
    (last.op = "Bin" /\ last.status = "ok") =>
        /\ last.steps[1] = "add(base)"
        /\ last.steps[2] = "extrude"
        /\ last.steps[Len(last.steps)] = "super().__init__"
        /\ Cardinality(StepIndex(last.steps, "compartments.create"))
               = IF last.compartments THEN 1 ELSE 0
        /\ Cardinality(StepIndex(last.steps, "lip.create")) = IF last.lip THEN 1 ELSE 0
        /\ Len(last.steps) = 3 + (IF last.compartments THEN 1 ELSE 0)
                               + (IF last.lip THEN 1 ELSE 0)
        /\ \A i \in StepIndex(last.steps, "lip.create") :
               \A j \in StepIndex(last.steps, "compartments.create") : j < i
        /\ last.lip =>
               /\ last.lip_path.face = "TOP"
               /\ last.lip_path.wire = "outer_wire"
               /\ \A i \in StepIndex(last.steps, "lip.create") :
                      last.lip_path.part = SubSeq(last.steps, 1, i - 1)
               /\ last.compartments =>
                      \E k \in 1..Len(last.lip_path.part) :
                          last.lip_path.part[k] = "compartments.create"

\* A bin with compartments and a lip.
C30_Witness ==
    /\ last.op = "Bin"
    /\ last.status = "ok"
    /\ last.compartments
    /\ last.lip
    /\ last.lip_path.part = <<"add(base)", "extrude", "compartments.create">>

====
